---- MODULE Spec2Model ----
(***************************************************************************)
(* State-machine model of the breakout match engine (src/lib/gameEngine.ts, *)
(* src/lib/physics.ts, src/lib/powerups.ts).                                *)
(*                                                                         *)
(* Numbers.  The code computes in IEEE doubles; the model computes on a    *)
(* fixed-point grid:                                                       *)
(*   - positions, widths, heights : whole pixels                           *)
(*   - velocities                 : 1/VScale pixel per second              *)
(*   - times                      : milliseconds                           *)
(*   - ball.speed, sin, cos       : thousandths (Milli)                    *)
(* Every product is rounded to the nearest grid point (RoundDiv).  A NaN   *)
(* produced by 0/0 in handleBrickCollision is carried by the flags nanVel  *)
(* and nanPos of a ball; every comparison with a NaN is FALSE, as in JS.   *)
(***************************************************************************)
EXTENDS Integers, Sequences, FiniteSets, TLC

----------------------------------------------------------------------------
(* Configuration: DEFAULT_CONFIG overridden by the constructor's argument. *)

Width == 800
Height == 600
DefaultHeight == 600
BrickRows == 1
BrickCols == 2
InitialLives == 2
GameDuration == 5000

Difficulties == {"Easy", "Normal", "Hard"}

(* Units *)
Milli == 1000
VScale == 40

(* Geometry and speeds set by createInitialState / createBricks / createPowerUp *)
PaddleWidth == 100
PaddleHeight == 15
PaddleMaxSpeed == 500
PaddleInset == 50
PlayerPaddleOffset == 30
AiPaddleY == 15
BallRadius == 8
BallStartOffset == 50
LaunchSpeed == 300
LaunchSpread == 200
BrickHeight == 20
BrickPaddingX == 10
BrickPaddingY == 5
BrickGap == 4
PlayerBrickOffset == 250
AiBrickStartY == 50
NormalPoints == 10
SpecialPoints == 30
PowerUpWidth == 30
PowerUpHeight == 15
PowerUpFallSpeed == 100
RespawnGap == 20
SynthGap == 10
SynthSpeed == 300

(* POWER_UP_EFFECTS *)
ExpandDuration == 10000
SlowDuration == 8000
MaxExtraBalls == 3
PowerUpTypes == {"expand_paddle", "extra_ball", "slow_ball"}

(* updateAI / predictBallLanding *)
MoveThreshold == 5
MaxSteps == 1000

----------------------------------------------------------------------------
(* Arithmetic helpers *)

Max(a, b) == IF a >= b THEN a ELSE b
Min(a, b) == IF a <= b THEN a ELSE b
Abs(a) == IF a < 0 THEN -a ELSE a
Sign(a) == IF a > 0 THEN 1 ELSE IF a < 0 THEN -1 ELSE 0

(* n / d rounded to the nearest integer, halves away from zero (d > 0) *)
RoundDiv(n, d) ==
  IF n >= 0 THEN (2 * n + d) \div (2 * d) ELSE -((2 * (-n) + d) \div (2 * d))

(* a * b / d, rounded, with b / d a factor such as 1.5, 0.7 or 0.75 *)
Scale(a, num, den) == RoundDiv(a * num, den)

RECURSIVE SqrtSearch(_, _, _)
SqrtSearch(n, lo, hi) ==
  IF lo >= hi THEN lo
  ELSE LET mid == (lo + hi + 1) \div 2
       IN IF mid * mid <= n THEN SqrtSearch(n, mid, hi)
          ELSE SqrtSearch(n, lo, mid - 1)

(* Math.sqrt on the grid: the integer square root *)
Sqrt(n) == SqrtSearch(n, 0, 46340)

(* sin and cos, in thousandths, of (h - 5) * 12.6 degrees: the bounce angle   *)
(* (hitPosition - 0.5) * 0.7 * PI at hitPosition = h / 10                      *)
SinTable == <<218, 426, 613, 771, 891, 969>>
CosTable == <<976, 905, 790, 637, 454, 249>>
SinDeci(h) == IF h = 5 THEN 0 ELSE Sign(h - 5) * SinTable[Min(Abs(h - 5), 6)]
CosDeci(h) == IF h = 5 THEN Milli ELSE CosTable[Min(Abs(h - 5), 6)]

----------------------------------------------------------------------------
(* physics.ts *)

(* checkCollision(ball, object): the ball is given by its centre and its    *)
(* diameter (the power-up's radius min(30, 15) / 2 is not a whole pixel).   *)
(* checkCollision that counts a ball touching the rectangle as a collision *)
checkCollisionTouching(bx, by, diameter, nanPos, o) ==
  /\ ~nanPos
  /\ 4 * ((bx - Max(o.x, Min(bx, o.x + o.width)))
            * (bx - Max(o.x, Min(bx, o.x + o.width)))
          + (by - Max(o.y, Min(by, o.y + o.height)))
            * (by - Max(o.y, Min(by, o.y + o.height))))
       <= diameter * diameter

checkCollision(bx, by, diameter, nanPos, o) ==
  IF nanPos THEN FALSE
  ELSE LET closestX == Max(o.x, Min(bx, o.x + o.width))
           closestY == Max(o.y, Min(by, o.y + o.height))
           distanceX == bx - closestX
           distanceY == by - closestY
       IN 4 * (distanceX * distanceX + distanceY * distanceY) < diameter * diameter

ballHits(ball, o) == checkCollision(ball.x, ball.y, 2 * ball.radius, ball.nanPos, o)

handlePaddleCollision(ball, paddle) ==
  IF ball.nanVel \/ ball.nanPos THEN [ball EXCEPT !.nanVel = TRUE]
  ELSE LET h == RoundDiv((ball.x - paddle.x) * 10, paddle.width)
           speed == Sqrt(ball.vx * ball.vx + ball.vy * ball.vy)
       IN [ball EXCEPT !.vx = RoundDiv(SinDeci(h) * speed, Milli),
                       !.vy = -RoundDiv(CosDeci(h) * speed, Milli)]

(* jx, jy: the two (Math.random() - 0.5) * 0.05 draws, in velocity units *)
handleBrickCollision(ball, brick, jx, jy) ==
  LET closestX == Max(brick.x, Min(ball.x, brick.x + brick.width))
      closestY == Max(brick.y, Min(ball.y, brick.y + brick.height))
      normalX == ball.x - closestX
      normalY == ball.y - closestY
      magnitude2 == normalX * normalX + normalY * normalY
      dotProduct == ball.vx * normalX + ball.vy * normalY
  IN IF ball.nanVel \/ magnitude2 = 0
     THEN [ball EXCEPT !.nanVel = TRUE]
     ELSE [ball EXCEPT
             !.vx = ball.vx - RoundDiv(2 * dotProduct * normalX, magnitude2) + jx,
             !.vy = ball.vy - RoundDiv(2 * dotProduct * normalY, magnitude2) + jy]

(* handleWallCollision that inverts the velocity and leaves the position *)
handleWallCollisionNoClamp(ball, gameWidth) ==
  IF ball.nanPos THEN ball
  ELSE [ball EXCEPT
          !.vx = IF ball.x - ball.radius <= 0 \/ ball.x + ball.radius >= gameWidth
                 THEN -ball.vx ELSE ball.vx,
          !.vy = IF ball.y - ball.radius <= 0 THEN -ball.vy ELSE ball.vy]

(* handleWallCollision for which the top edge is no wall *)
handleWallCollisionSidesOnly(ball, gameWidth) ==
  IF ball.nanPos THEN ball
  ELSE IF ball.x - ball.radius <= 0 \/ ball.x + ball.radius >= gameWidth
       THEN [ball EXCEPT
               !.vx = -ball.vx,
               !.x = IF ball.x - ball.radius <= 0 THEN ball.radius
                     ELSE gameWidth - ball.radius]
       ELSE ball

handleWallCollision(ball, gameWidth) ==
  IF ball.nanPos THEN ball
  ELSE LET side == ball.x - ball.radius <= 0 \/ ball.x + ball.radius >= gameWidth
           b1 == IF side
                 THEN [ball EXCEPT
                         !.vx = -ball.vx,
                         !.x = IF ball.x - ball.radius <= 0 THEN ball.radius
                               ELSE gameWidth - ball.radius]
                 ELSE ball
       IN IF b1.y - b1.radius <= 0
          THEN [b1 EXCEPT !.vy = -b1.vy, !.y = b1.radius]
          ELSE b1

isBallLost(ball, gameHeight) ==
  ~ball.nanPos /\ ball.y - ball.radius > gameHeight

(* displacement in pixels of velocity v over deltaTime ms at ball.speed *)
Displacement(v, speed, deltaTime, speedMultiplier) ==
  RoundDiv(RoundDiv(v * deltaTime, Milli) * speed * speedMultiplier, VScale * Milli)

(* updateBallPosition without the overtime multiplier *)
updateBallPositionPlain(ball, deltaTime, gameOver) ==
  IF ball.nanVel \/ ball.nanPos THEN [ball EXCEPT !.nanPos = TRUE]
  ELSE [ball EXCEPT
          !.x = ball.x + Displacement(ball.vx, ball.speed, deltaTime, 1),
          !.y = ball.y + Displacement(ball.vy, ball.speed, deltaTime, 1)]

updateBallPosition(ball, deltaTime, gameOver) ==
  LET speedMultiplier == IF gameOver THEN 2 ELSE 1
  IN IF ball.nanVel \/ ball.nanPos THEN [ball EXCEPT !.nanPos = TRUE]
     ELSE [ball EXCEPT
             !.x = ball.x + Displacement(ball.vx, ball.speed, deltaTime, speedMultiplier),
             !.y = ball.y + Displacement(ball.vy, ball.speed, deltaTime, speedMultiplier)]

(* updatePowerUp: [caught, powerUp]; deltaTime is negative for the AI's call *)
updatePowerUp(powerUp, paddle, gameHeight, deltaTime) ==
  LET moved == [powerUp EXCEPT
                  !.y = powerUp.y + RoundDiv(PowerUpFallSpeed * deltaTime, Milli)]
  IN IF checkCollision(moved.x, moved.y, Min(PowerUpWidth, PowerUpHeight), FALSE, paddle)
     THEN [caught |-> TRUE, powerUp |-> moved]
     ELSE [caught |-> FALSE,
           powerUp |-> IF moved.y > gameHeight THEN [moved EXCEPT !.active = FALSE]
                       ELSE moved]

----------------------------------------------------------------------------
(* The world an update works on: the GameState (w.state), the module-level   *)
(* variables of powerups.ts and ai.ts, and what the tick emits.              *)
(*   w.events : the GameEvents handed to eventCallback, in order             *)
(*   w.hits   : the bricks whose collision branch ran, in order              *)

(* an event that finds no handler registered ends the match *)
emitNeedsHandler(w, event) ==
  IF w.eventCallback THEN [w EXCEPT !.events = Append(w.events, event)]
  ELSE [w EXCEPT !.state.gameOver = TRUE]

emit(w, event) ==
  IF w.eventCallback THEN [w EXCEPT !.events = Append(w.events, event)] ELSE w

----------------------------------------------------------------------------
(* powerups.ts *)

createPowerUp(position, randomType) ==
  [x |-> position.x, y |-> position.y, width |-> PowerUpWidth,
   height |-> PowerUpHeight, active |-> TRUE, type |-> randomType]

paddleOf(st, player) == IF player = "human" THEN st.playerPaddle ELSE st.aiPaddle

setPaddle(st, player, paddle) ==
  IF player = "human" THEN [st EXCEPT !.playerPaddle = paddle]
  ELSE [st EXCEPT !.aiPaddle = paddle]

(* case EXPAND_PADDLE of applyPowerUp *)
applyExpandPaddle(w, player, currentTime) ==
  LET paddle == paddleOf(w.state, player)
      originalWidth == paddle.width
      width == Scale(paddle.width, 3, 2)
      expanded == [paddle EXCEPT !.width = width,
                                 !.x = paddle.x - RoundDiv(width - originalWidth, 2)]
  IN [w EXCEPT
        !.state = setPaddle(w.state, player, expanded),
        !.activePowerUps = Append(w.activePowerUps,
            [type |-> "expand_paddle", player |-> player,
             expiresAt |-> currentTime + ExpandDuration])]

InHalf(ball, player) ==
  /\ ~ball.nanPos
  /\ \/ player = "human" /\ ball.y > DefaultHeight \div 2
     \/ player = "ai" /\ ball.y < DefaultHeight \div 2

RECURSIVE CountInHalf(_, _)
CountInHalf(balls, player) ==
  IF balls = << >> THEN 0
  ELSE (IF InHalf(Head(balls), player) THEN 1 ELSE 0) + CountInHalf(Tail(balls), player)

RECURSIVE FirstActive(_, _)
FirstActive(balls, i) ==
  IF i > Len(balls) THEN 0
  ELSE IF balls[i].active THEN i ELSE FirstActive(balls, i + 1)

(* x || fallback for a velocity component: 0 and NaN are falsy *)
OrElse(v, isNaN, fallback) == IF isNaN \/ v = 0 THEN fallback ELSE v

(* case EXTRA_BALL of applyPowerUp; angle = [sin, cos] of the drawn angle, *)
(* in velocity units                                                       *)
applyExtraBall(w, player, angle) ==
  LET st == w.state
      paddle == paddleOf(st, player)
      found == FirstActive(st.balls, 1)
      sourceBall ==
        IF found # 0 THEN st.balls[found]
        ELSE [x |-> paddle.x + paddle.width \div 2,
              y |-> IF player = "human" THEN paddle.y - SynthGap
                    ELSE paddle.y + paddle.height + SynthGap,
              vx |-> 0,
              vy |-> IF player = "human" THEN -VScale ELSE VScale,
              radius |-> BallRadius, speed |-> SynthSpeed * Milli,
              active |-> TRUE, nanPos |-> FALSE, nanVel |-> FALSE]
      newBall == [sourceBall EXCEPT
                    !.vx = angle.sin * Sign(OrElse(sourceBall.vx, sourceBall.nanVel, 1)),
                    !.vy = angle.cos * Sign(OrElse(sourceBall.vy, sourceBall.nanVel,
                                                   IF player = "human" THEN -1 ELSE 1)),
                    !.nanVel = FALSE,
                    !.active = TRUE]
  IN IF CountInHalf(st.balls, player) < MaxExtraBalls
     THEN [w EXCEPT !.state.balls = Append(st.balls, newBall)]
     ELSE w

RECURSIVE SlowEntries(_, _, _)
SlowEntries(balls, player, currentTime) ==
  IF balls = << >> THEN << >>
  ELSE (IF Head(balls).active
        THEN << [type |-> "slow_ball", player |-> player,
                 expiresAt |-> currentTime + SlowDuration] >>
        ELSE << >>) \o SlowEntries(Tail(balls), player, currentTime)

(* case SLOW_BALL of applyPowerUp *)
applySlowBall(w, player, currentTime) ==
  [w EXCEPT
     !.state.balls = [i \in DOMAIN w.state.balls |->
        IF w.state.balls[i].active
        THEN [w.state.balls[i] EXCEPT !.speed = Scale(w.state.balls[i].speed, 7, 10)]
        ELSE w.state.balls[i]],
     !.activePowerUps = w.activePowerUps \o SlowEntries(w.state.balls, player, currentTime)]

applyPowerUp(w, powerUp, player, currentTime, angle) ==
  CASE powerUp.type = "expand_paddle" -> applyExpandPaddle(w, player, currentTime)
    [] powerUp.type = "extra_ball" -> applyExtraBall(w, player, angle)
    [] powerUp.type = "slow_ball" -> applySlowBall(w, player, currentTime)

(* the body of updatePowerUps' loop for one expired entry *)
revertPowerUp(st, powerUp) ==
  CASE powerUp.type = "expand_paddle" ->
         LET paddle == paddleOf(st, powerUp.player)
             width == Scale(paddle.width, 2, 3)
         IN setPaddle(st, powerUp.player,
              [paddle EXCEPT !.width = width,
                             !.x = paddle.x + RoundDiv(Scale(width, 3, 2) - width, 2)])
    [] powerUp.type = "slow_ball" ->
         [st EXCEPT !.balls = [i \in DOMAIN st.balls |->
            IF st.balls[i].active
            THEN [st.balls[i] EXCEPT !.speed = Scale(st.balls[i].speed, 10, 7)]
            ELSE st.balls[i]]]
    [] OTHER -> st

RECURSIVE revertAll(_, _)
revertAll(st, expired) ==
  IF expired = << >> THEN st
  ELSE revertAll(revertPowerUp(st, Head(expired)), Tail(expired))

updatePowerUps(w, currentTime) ==
  LET expiredPowerUps == SelectSeq(w.activePowerUps, LAMBDA pu : pu.expiresAt <= currentTime)
  IN [w EXCEPT
        !.state = revertAll(w.state, expiredPowerUps),
        !.activePowerUps =
           SelectSeq(w.activePowerUps, LAMBDA pu : ~(pu.expiresAt <= currentTime))]

----------------------------------------------------------------------------
(* ai.ts.  A Math.random() draw r is given in thousandths, 0 <= r < 1000.   *)

(* difficultySettings: factors in thousandths, reactionDelay in ms *)
difficultySettings ==
  [Easy |-> [speedMultiplier |-> 500, predictionAccuracy |-> 700,
             reactionDelay |-> 300, errorChance |-> 300],
   Normal |-> [speedMultiplier |-> 800, predictionAccuracy |-> 850,
               reactionDelay |-> 150, errorChance |-> 150],
   Hard |-> [speedMultiplier |-> 1000, predictionAccuracy |-> 950,
             reactionDelay |-> 50, errorChance |-> 50]]

(* the "simple AABB collision check" of the Hard rollout *)
aabbOverlap(sim, brick) ==
  /\ sim.x + sim.radius > brick.x
  /\ sim.x - sim.radius < brick.x + brick.width
  /\ sim.y + sim.radius > brick.y
  /\ sim.y - sim.radius < brick.y + brick.height

(* the wall test of the rollout: only the velocity is turned round *)
rolloutWall(moved, gameWidth) ==
  IF moved.x - moved.radius <= 0 \/ moved.x + moved.radius >= gameWidth
  THEN [moved EXCEPT !.vx = -moved.vx] ELSE moved

(* "for Hard difficulty, also consider brick collisions" *)
rolloutBricks(walled, bricks, difficulty) ==
  IF difficulty = "Hard"
     /\ \E j \in DOMAIN bricks : bricks[j].active /\ aabbOverlap(walled, bricks[j])
  THEN [walled EXCEPT !.vy = -walled.vy]
  ELSE walled

(* one iteration of the rollout loop: the velocity is added once per step *)
rolloutStep(sim, gameWidth, bricks, difficulty) ==
  rolloutBricks(rolloutWall([sim EXCEPT !.x = sim.x + RoundDiv(sim.vx, VScale),
                                        !.y = sim.y + RoundDiv(sim.vy, VScale)],
                            gameWidth),
                bricks, difficulty)

(* "simulate ball movement until it reaches the paddle's y-level or max  *)
(* steps": the while loop continued from run = [sim, steps] for at most  *)
(* budget iterations, the budget split in halves so that a long rollout  *)
(* nests its evaluation a few levels deep only                           *)
RECURSIVE rollout(_, _, _, _, _, _)
rollout(run, budget, gameWidth, paddleY, bricks, difficulty) ==
  IF budget = 0 \/ ~(run.sim.y < paddleY /\ run.steps < MaxSteps) THEN run
  ELSE IF budget = 1
       THEN [sim |-> rolloutStep(run.sim, gameWidth, bricks, difficulty),
             steps |-> run.steps + 1]
       ELSE rollout(rollout(run, budget \div 2, gameWidth, paddleY, bricks, difficulty),
                    budget - budget \div 2, gameWidth, paddleY, bricks, difficulty)

(* the simulated ball of predictBallLanding before the loop, and a budget *)
(* of iterations that the loop cannot use up                               *)
simulatedBall(ball) ==
  [sim |-> [x |-> ball.x, y |-> ball.y, vx |-> ball.vx, vy |-> ball.vy,
            radius |-> ball.radius],
   steps |-> 0]

(* "add some inaccuracy based on difficulty"; r is the draw *)
errorAmount(gameWidth, difficulty, r) ==
  RoundDiv((r - 500) * (Milli - difficultySettings[difficulty].predictionAccuracy)
             * gameWidth,
           Milli * Milli)

(* predictBallLanding that returns the prediction without the clamp *)
predictBallLandingUnclamped(ball, gameWidth, paddleY, bricks, difficulty, r) ==
  IF difficulty = "Easy" THEN ball.x
  ELSE rollout(simulatedBall(ball), MaxSteps + 1, gameWidth, paddleY, bricks,
               difficulty).sim.x
       + errorAmount(gameWidth, difficulty, r)

(* r: the draw of errorAmount (unused for Easy) *)
predictBallLanding(ball, gameWidth, paddleY, bricks, difficulty, r) ==
  IF difficulty = "Easy" THEN ball.x
  ELSE Max(0, Min(gameWidth,
                  rollout(simulatedBall(ball), MaxSteps + 1, gameWidth, paddleY,
                          bricks, difficulty).sim.x
                  + errorAmount(gameWidth, difficulty, r)))

(* index of the ball the reduce of updateAI returns, 0 for null *)
RECURSIVE closestBallFrom(_, _, _, _)
closestBallFrom(balls, paddleY, i, closest) ==
  IF i > Len(balls) THEN closest
  ELSE LET ball == balls[i]
           better ==
             /\ ball.active
             /\ ~ball.nanPos
             /\ \/ closest = 0
                \/ Abs(ball.y - paddleY) < Abs(balls[closest].y - paddleY)
       IN closestBallFrom(balls, paddleY, i + 1, IF better THEN i ELSE closest)

(* aiRecomputes with >= for the reaction delay *)
aiRecomputesAtDelay(w, difficulty, currentTime) ==
  /\ closestBallFrom(w.state.balls, w.state.aiPaddle.y, 1, 0) # 0
  /\ currentTime - w.lastUpdateTime >= difficultySettings[difficulty].reactionDelay

(* does this call of updateAI recompute its target (and so draw)? *)
aiRecomputes(w, difficulty, currentTime) ==
  /\ closestBallFrom(w.state.balls, w.state.aiPaddle.y, 1, 0) # 0
  /\ currentTime - w.lastUpdateTime > difficultySettings[difficulty].reactionDelay

(* the target a recomputation sets: the prediction, moved away from the ball *)
(* by 0.75 paddle widths when the AI makes a mistake                         *)
aiTarget(w, closest, gameWidth, difficulty, draws) ==
  predictBallLanding(w.state.balls[closest], gameWidth, w.state.aiPaddle.y,
                     w.state.bricks, difficulty, draws.err)
  + (IF draws.mistake < difficultySettings[difficulty].errorChance
     THEN (IF draws.side < 500 THEN -1 ELSE 1) * Scale(w.state.aiPaddle.width, 3, 4)
     ELSE 0)

moveDirection(paddleCenter, target) ==
  IF paddleCenter < target - MoveThreshold THEN 1
  ELSE IF paddleCenter > target + MoveThreshold THEN -1
  ELSE 0

(* the paddle position after the move, before the clamp *)
aiMovedX(aiPaddle, target, deltaTime, difficulty) ==
  aiPaddle.x
  + moveDirection(aiPaddle.x + aiPaddle.width \div 2, target)
    * RoundDiv(Scale(aiPaddle.maxSpeed, difficultySettings[difficulty].speedMultiplier,
                     Milli) * deltaTime,
               Milli)

(* aiMove without the final clamp of the paddle position *)
aiMoveUnclamped(w, target, recompute, deltaTime, gameWidth, difficulty, currentTime) ==
  [w EXCEPT
     !.targetPosition = target,
     !.lastUpdateTime = IF recompute THEN currentTime ELSE w.lastUpdateTime,
     !.state.aiPaddle.x = aiMovedX(w.state.aiPaddle, target, deltaTime, difficulty)]

(* updateAI from the reaction-delay test on: store the target, move, clamp *)
aiMove(w, target, recompute, deltaTime, gameWidth, difficulty, currentTime) ==
  [w EXCEPT
     !.targetPosition = target,
     !.lastUpdateTime = IF recompute THEN currentTime ELSE w.lastUpdateTime,
     !.state.aiPaddle.x =
        Max(0, Min(gameWidth - w.state.aiPaddle.width,
                   aiMovedX(w.state.aiPaddle, target, deltaTime, difficulty)))]

(* draws: [err, mistake, side], the three Math.random() of a recomputation *)
updateAI(w, deltaTime, gameWidth, difficulty, currentTime, draws) ==
  IF closestBallFrom(w.state.balls, w.state.aiPaddle.y, 1, 0) = 0 THEN w
  ELSE aiMove(w,
              IF aiRecomputes(w, difficulty, currentTime)
              THEN aiTarget(w, closestBallFrom(w.state.balls, w.state.aiPaddle.y, 1, 0),
                            gameWidth, difficulty, draws)
              ELSE w.targetPosition,
              aiRecomputes(w, difficulty, currentTime),
              deltaTime, gameWidth, difficulty, currentTime)

----------------------------------------------------------------------------
(* gameEngine.ts: createInitialState and createBricks *)

launchVx(r) == RoundDiv((r - 500) * LaunchSpread * VScale, Milli)

(* the brick made in the k-th iteration (k from 0) of createBricks' loops; *)
(* r is its Math.random() < 0.2 draw                                       *)
createBrick(startY, flipped, row, col, r) ==
  LET brickWidth == (Width - 2 * BrickPaddingX) \div BrickCols
      isSpecial == r < 200
  IN [x |-> BrickPaddingX + col * brickWidth,
      y |-> startY + row * (BrickHeight + BrickPaddingY) * (IF flipped THEN 1 ELSE -1),
      width |-> brickWidth - BrickGap,
      height |-> BrickHeight,
      type |-> IF isSpecial THEN "special" ELSE "normal",
      points |-> IF isSpecial THEN SpecialPoints ELSE NormalPoints,
      active |-> TRUE]

(* layout: the draws of the brick loops, used cyclically; first: the number *)
(* of bricks created before this call                                       *)
createBricks(startY, flipped, layout, first) ==
  [k \in 1 .. BrickRows * BrickCols |->
     createBrick(startY, flipped, (k - 1) \div BrickCols, (k - 1) % BrickCols,
                 layout[((first + k - 1) % Len(layout)) + 1])]

createInitialState(r0, r1, layout) ==
  LET paddle(y) == [x |-> Width \div 2 - PaddleInset, y |-> y, width |-> PaddleWidth,
                    height |-> PaddleHeight, maxSpeed |-> PaddleMaxSpeed]
      newBall(y, vx, vy) == [x |-> Width \div 2, y |-> y, vx |-> vx, vy |-> vy,
                             radius |-> BallRadius, speed |-> Milli, active |-> TRUE,
                             nanPos |-> FALSE, nanVel |-> FALSE]
      ball == newBall(Height - BallStartOffset, launchVx(r0), -LaunchSpeed * VScale)
      aiBall == newBall(BallStartOffset, launchVx(r1), LaunchSpeed * VScale)
      playerBricks == createBricks(Height - PlayerBrickOffset, FALSE, layout, 0)
      aiBricks == createBricks(AiBrickStartY, TRUE, layout, BrickRows * BrickCols)
  IN [balls |-> << ball, aiBall >>,
      playerPaddle |-> paddle(Height - PlayerPaddleOffset),
      aiPaddle |-> paddle(AiPaddleY),
      bricks |-> playerBricks \o aiBricks,
      powerUps |-> << >>,
      playerScore |-> 0,
      aiScore |-> 0,
      playerLives |-> InitialLives,
      aiLives |-> InitialLives,
      timeRemaining |-> GameDuration,
      gameOver |-> FALSE,
      paused |-> FALSE]

----------------------------------------------------------------------------
(* gameEngine.ts: update.  draws holds the Math.random() values of the tick: *)
(* ai = [err, mistake, side], angle, vx, jx, jy, type.                       *)

Remove(seq, i) == SubSeq(seq, 1, i - 1) \o SubSeq(seq, i + 1, Len(seq))

use(w, kind) == [w EXCEPT !.used = w.used \cup {kind}]

(* the angle of the new ball, Math.random() * PI / 2 - PI / 4, as [sin, cos] *)
(* in velocity units, at -45, 0 and 45 degrees                               *)
extraBallAngle(r) ==
  IF r < 333 THEN [sin |-> -28, cos |-> 28]
  ELSE IF r < 667 THEN [sin |-> 0, cos |-> VScale]
  ELSE [sin |-> 28, cos |-> 28]

powerUpType(r) ==
  CASE (r * 3) \div Milli = 0 -> "expand_paddle"
    [] (r * 3) \div Milli = 1 -> "extra_ball"
    [] OTHER -> "slow_ball"

(* records that the catch drew the new ball's angle *)
noteAngle(w, applied, powerUp) ==
  IF powerUp.type = "extra_ball" /\ Len(applied.state.balls) > Len(w.state.balls)
  THEN use(applied, "angle") ELSE applied

(* the caught power-up left in the list *)
splicePowerUpSkipped(w, i) == w

splicePowerUp(w, i) == [w EXCEPT !.state.powerUps = Remove(w.state.powerUps, i)]

(* a caught power-up: apply, splice, emit *)
catchPowerUp(w, i, powerUp, player, currentTime, draws) ==
  emit(splicePowerUp(noteAngle(w,
                               applyPowerUp(w, powerUp, player, currentTime,
                                            extraBallAngle(draws.angle)),
                               powerUp),
                     i),
       [type |-> "power_up", player |-> player, powerUpType |-> powerUp.type])

(* one iteration of the "update falling power-ups" loop *)
powerUpStep(w, i, deltaTime, currentTime, draws) ==
  LET first == updatePowerUp(w.state.powerUps[i], w.state.playerPaddle, Height, deltaTime)
      second == updatePowerUp(first.powerUp, w.state.aiPaddle, 0, -deltaTime)
  IN IF first.caught THEN catchPowerUp(w, i, first.powerUp, "human", currentTime, draws)
     ELSE IF second.caught THEN catchPowerUp(w, i, second.powerUp, "ai", currentTime, draws)
     ELSE IF ~second.powerUp.active
          THEN [w EXCEPT !.state.powerUps = Remove(w.state.powerUps, i)]
          ELSE [w EXCEPT !.state.powerUps[i] = second.powerUp]

RECURSIVE powerUpLoop(_, _, _, _, _)
powerUpLoop(w, i, deltaTime, currentTime, draws) ==
  IF i < 1 THEN w
  ELSE powerUpLoop(powerUpStep(w, i, deltaTime, currentTime, draws), i - 1,
                   deltaTime, currentTime, draws)

vyPositive(ball) == ~ball.nanVel /\ ball.vy > 0
vyNegative(ball) == ~ball.nanVel /\ ball.vy < 0


(* the player's lost ball put back below the paddle, not above it *)
playerBallLostBelowPaddle(w, b, draws) ==
  LET lives == w.state.playerLives - 1
      w1 == emit([w EXCEPT !.state.playerLives = lives],
                 [type |-> "life_lost", player |-> "human", value |-> lives])
  IN IF lives <= 0
     THEN [w |-> emit([w1 EXCEPT !.state.gameOver = TRUE],
                      [type |-> "game_over", player |-> "ai"]),
           ball |-> b]
     ELSE [w |-> use(w1, "vx"),
           ball |-> [b EXCEPT
              !.x = w.state.playerPaddle.x + w.state.playerPaddle.width \div 2,
              !.y = w.state.playerPaddle.y + RespawnGap,
              !.vx = launchVx(draws.vx),
              !.vy = -LaunchSpeed * VScale,
              !.nanVel = FALSE]]

(* "Player's ball is lost": w.state.balls[i] is the ball b after the walls *)
playerBallLost(w, b, draws) ==
  LET lives == w.state.playerLives - 1
      w1 == emit([w EXCEPT !.state.playerLives = lives],
                 [type |-> "life_lost", player |-> "human", value |-> lives])
  IN IF lives <= 0
     THEN [w |-> emit([w1 EXCEPT !.state.gameOver = TRUE],
                      [type |-> "game_over", player |-> "ai"]),
           ball |-> b]
     ELSE [w |-> use(w1, "vx"),
           ball |-> [b EXCEPT
              !.x = w.state.playerPaddle.x + w.state.playerPaddle.width \div 2,
              !.y = w.state.playerPaddle.y - RespawnGap,
              !.vx = launchVx(draws.vx),
              !.vy = -LaunchSpeed * VScale,
              !.nanVel = FALSE]]

(* "AI's ball is lost" *)
aiBallLost(w, b, draws) ==
  LET lives == w.state.aiLives - 1
      w1 == emit([w EXCEPT !.state.aiLives = lives],
                 [type |-> "life_lost", player |-> "ai", value |-> lives])
  IN IF lives <= 0
     THEN [w |-> emit([w1 EXCEPT !.state.gameOver = TRUE],
                      [type |-> "game_over", player |-> "human"]),
           ball |-> b]
     ELSE [w |-> use(w1, "vx"),
           ball |-> [b EXCEPT
              !.x = w.state.aiPaddle.x + w.state.aiPaddle.width \div 2,
              !.y = w.state.aiPaddle.y + w.state.aiPaddle.height + RespawnGap,
              !.vx = launchVx(draws.vx),
              !.vy = LaunchSpeed * VScale,
              !.nanVel = FALSE]]

(* the loss detection of the ball loop *)
lossCheck(w, b, draws) ==
  IF isBallLost(b, Height)
  THEN IF vyPositive(b) THEN playerBallLost(w, b, draws) ELSE [w |-> w, ball |-> b]
  ELSE IF ~b.nanPos /\ b.y < 0
       THEN IF vyNegative(b) THEN aiBallLost(w, b, draws) ELSE [w |-> w, ball |-> b]
       ELSE [w |-> w, ball |-> b]

(* the paddle test of the ball loop; rb = [w, ball] *)
paddleCheck(rb) ==
  IF vyPositive(rb.ball) /\ ballHits(rb.ball, rb.w.state.playerPaddle)
  THEN [rb EXCEPT !.ball = handlePaddleCollision(rb.ball, rb.w.state.playerPaddle)]
  ELSE IF vyNegative(rb.ball) /\ ballHits(rb.ball, rb.w.state.aiPaddle)
       THEN [rb EXCEPT !.ball = handlePaddleCollision(rb.ball, rb.w.state.aiPaddle)]
       ELSE rb

(* brickTested without the "if (!brick.active) continue" *)
brickTestedAlways(brick) == TRUE

(* is brick j tested against the ball? *)
brickTested(brick) == brick.active

(* "deactivate brick", with the log of the hit and of the jitter draws *)
deactivateBrick(w, j, bounced) ==
  [w EXCEPT !.state.bricks[j].active = FALSE,
            !.hits = Append(w.hits, j),
            !.used = w.used \cup (IF bounced.nanVel THEN {} ELSE {"jitter"})]

(* addScore with the score assigned from the brick's points, not increased *)
addScoreAssignsPoints(w, bounced, brick) ==
  IF vyNegative(bounced)
  THEN emit([w EXCEPT !.state.playerScore = brick.points],
            [type |-> "score", player |-> "human", value |-> brick.points])
  ELSE emit([w EXCEPT !.state.aiScore = brick.points],
            [type |-> "score", player |-> "ai", value |-> brick.points])

(* addScore crediting the brick to both sides *)
addScoreToBoth(w, bounced, brick) ==
  emit([w EXCEPT !.state.playerScore = w.state.playerScore + brick.points,
                 !.state.aiScore = w.state.aiScore + brick.points],
       [type |-> "score", player |-> IF vyNegative(bounced) THEN "human" ELSE "ai",
        value |-> (IF vyNegative(bounced) THEN w.state.playerScore
                   ELSE w.state.aiScore) + brick.points])

(* "add score to player or AI depending on ball direction" (after the bounce) *)
addScore(w, bounced, brick) ==
  IF vyNegative(bounced)
  THEN emit([w EXCEPT !.state.playerScore = w.state.playerScore + brick.points],
            [type |-> "score", player |-> "human",
             value |-> w.state.playerScore + brick.points])
  ELSE emit([w EXCEPT !.state.aiScore = w.state.aiScore + brick.points],
            [type |-> "score", player |-> "ai",
             value |-> w.state.aiScore + brick.points])

(* a power-up created for every destroyed brick, whatever its type *)
spawnPowerUpForAnyBrick(w, brick, draws) ==
  use([w EXCEPT !.state.powerUps =
         Append(w.state.powerUps, createPowerUp(brick, powerUpType(draws.type)))],
      "type")

(* "create power-up for special bricks" *)
spawnPowerUp(w, brick, draws) ==
  IF brick.type = "special"
  THEN use([w EXCEPT !.state.powerUps =
              Append(w.state.powerUps, createPowerUp(brick, powerUpType(draws.type)))],
           "type")
  ELSE w

(* the hit branch after handleBrickCollision has given the ball bounced *)
brickHitAfterBounce(w, bounced, j, draws) ==
  [w |-> spawnPowerUp(addScore(deactivateBrick(w, j, bounced), bounced,
                               w.state.bricks[j]),
                      w.state.bricks[j], draws),
   ball |-> bounced]

(* the body of "if (checkCollision(ball, brick))" for brick j *)
brickHit(w, b, j, draws) ==
  brickHitAfterBounce([w EXCEPT !.hitBalls = Append(w.hitBalls, b)],
                      handleBrickCollision(b, w.state.bricks[j],
                                           RoundDiv((draws.jx - 500) * 2, Milli),
                                           RoundDiv((draws.jy - 500) * 2, Milli)),
                      j, draws)

(* the brick loop from brick j on; rb = [w, ball] *)
RECURSIVE brickLoop(_, _, _)
brickLoop(rb, j, draws) ==
  IF j > Len(rb.w.state.bricks) THEN rb
  ELSE IF brickTested(rb.w.state.bricks[j]) /\ ballHits(rb.ball, rb.w.state.bricks[j])
       THEN brickLoop(brickHit(rb.w, rb.ball, j, draws), j + 1, draws)
       ELSE brickLoop(rb, j + 1, draws)

(* the ball of the iteration written back into the state *)
storeBall(rb, i) == [rb.w EXCEPT !.state.balls[i] = rb.ball]

(* one iteration of the "update balls" loop *)
ballStep(w, i, deltaTime, draws) ==
  IF ~w.state.balls[i].active THEN w
  ELSE storeBall(
         brickLoop(
           paddleCheck(
             lossCheck(w,
                       handleWallCollision(
                         updateBallPosition(w.state.balls[i], deltaTime,
                                            w.state.gameOver),
                         Width),
                       draws)),
           1, draws),
         i)

RECURSIVE ballLoop(_, _, _, _)
ballLoop(w, i, deltaTime, draws) ==
  IF i < 1 THEN w
  ELSE ballLoop(ballStep(w, i, deltaTime, draws), i - 1, deltaTime, draws)

(* timeUp with the first comparison made non-strict: a tie goes to the human *)
timeUpTieToHuman(w) ==
  LET st == w.state
      winner == IF st.playerScore >= st.aiScore THEN "human"
                ELSE IF st.playerScore < st.aiScore THEN "ai" ELSE "tie"
  IN emit([w EXCEPT !.state.timeRemaining = 0, !.state.gameOver = TRUE],
          [type |-> "game_over", player |-> winner])

(* the time-up branch without "this.state.timeRemaining = 0" *)
timeUpUnclamped(w) ==
  emit([w EXCEPT !.state.gameOver = TRUE],
       [type |-> "game_over",
        player |-> IF w.state.playerScore > w.state.aiScore THEN "human"
                   ELSE IF w.state.playerScore < w.state.aiScore THEN "ai"
                   ELSE "tie"])

(* the time-up branch without "this.state.gameOver = true" *)
timeUpKeepsPlaying(w) ==
  emit([w EXCEPT !.state.timeRemaining = 0],
       [type |-> "game_over",
        player |-> IF w.state.playerScore > w.state.aiScore THEN "human"
                   ELSE IF w.state.playerScore < w.state.aiScore THEN "ai"
                   ELSE "tie"])

(* the time-up branch *)
timeUp(w) ==
  LET st == w.state
      winner == IF st.playerScore > st.aiScore THEN "human"
                ELSE IF st.playerScore < st.aiScore THEN "ai" ELSE "tie"
  IN emit([w EXCEPT !.state.timeRemaining = 0, !.state.gameOver = TRUE],
          [type |-> "game_over", player |-> winner])

(* the time update carrying the second the clock was in before the tick *)
timeUpdateOfOldSecond(w, deltaTime) ==
  IF w.state.timeRemaining \div Milli # (w.state.timeRemaining + deltaTime) \div Milli
  THEN emit(w, [type |-> "time_update", player |-> "human",
                value |-> (w.state.timeRemaining + deltaTime) \div Milli])
  ELSE w

(* "send time update event every second" *)
timeUpdate(w, deltaTime) ==
  IF w.state.timeRemaining \div Milli # (w.state.timeRemaining + deltaTime) \div Milli
  THEN emit(w, [type |-> "time_update", player |-> "human",
                value |-> w.state.timeRemaining \div Milli])
  ELSE w

(* the three stages of update after the clock: AI, power-ups, balls *)
aiStage(w, deltaTime, difficulty, currentTime, draws) ==
  LET aiSpeedMultiplier == IF w.state.gameOver THEN 3 ELSE 1
  IN updatePowerUps(updateAI(w, deltaTime * aiSpeedMultiplier, Width, difficulty,
                             currentTime, draws.ai),
                    currentTime)

powerUpStage(w, deltaTime, currentTime, draws) ==
  powerUpLoop(w, Len(w.state.powerUps), deltaTime, currentTime, draws)

ballStage(w, deltaTime, draws) ==
  timeUpdate(ballLoop(w, Len(w.state.balls), deltaTime, draws), deltaTime)

isTimeUp(w, deltaTime) == w.state.timeRemaining - deltaTime <= 0

(* update that tests the clock after the AI has moved, not before *)
updateMovesAiFirst(w, deltaTime, difficulty, currentTime, draws) ==
  IF w.state.timeRemaining - deltaTime <= 0
  THEN timeUp(aiStage([w EXCEPT !.state.timeRemaining = w.state.timeRemaining - deltaTime],
                      deltaTime, difficulty, currentTime, draws))
  ELSE ballStage(
         powerUpStage(
           aiStage([w EXCEPT !.state.timeRemaining = w.state.timeRemaining - deltaTime],
                   deltaTime, difficulty, currentTime, draws),
           deltaTime, currentTime, draws),
         deltaTime, draws)

update(w, deltaTime, difficulty, currentTime, draws) ==
  LET w0 == [w EXCEPT !.state.timeRemaining = w.state.timeRemaining - deltaTime]
  IN IF w0.state.timeRemaining <= 0 THEN timeUp(w0)
     ELSE ballStage(
            powerUpStage(aiStage(w0, deltaTime, difficulty, currentTime, draws),
                         deltaTime, currentTime, draws),
            deltaTime, draws)

----------------------------------------------------------------------------
(* Bounds of the model and the inputs it draws from.                        *)
(* The caller is the page of src/components/Game.tsx: it registers its      *)
(* handler before it starts the loop (onEvent, then start), and offers      *)
(* "play again" (reset) on a finished match.  The model explores that       *)
(* caller: Start waits for OnEvent, Reset for gameOver; pause() and reset() *)
(* are called at most MaxPauses and MaxResets times.  These are limits on   *)
(* the caller, not tests made by the engine.                                *)

(* the wall clock (Date.now, performance.now) at construction, and how far *)
(* past it the model runs                                                  *)
Epoch == 1000
MaxClock == 5600
MaxResets == 1
MaxPauses == 1

(* the power-up specification: at most MaxCatches power-ups are applied in *)
(* a match, and updatePowerUps runs 8 or 10 seconds after the last step,    *)
(* up to MaxEffectClock ms after the construction                          *)
MaxCatches == 2
MaxEffectClock == 18000
EffectDeltas == {8000, 10000}

(* elapsed ms between two frames *)
DeltaSet == {590, 2200}
(* positions handed to movePlayerPaddle *)
MoveSet == {-40, 0}
(* Math.random() draws, in thousandths *)
(* createInitialState: the two launch draws and the brick draws (cyclic) *)
InitDraws == {[r0 |-> 500, r1 |-> 500, layout |-> << 0, 999 >>],
              [r0 |-> 0, r1 |-> 999, layout |-> << 999 >>]}
VxDraws == {0, 500}
ErrDraws == {999}
MistakeDraws == {0, 999}
SideDraws == {0}
AngleDraws == {0, 999}
JitterDraws == {999}
TypeDraws == {0, 500, 999}

(* the balls that the collision responses of physics.ts are tried on: on, *)
(* next to and beyond each edge, on both paddles, on and next to the     *)
(* bricks of the default layout; velocities in 1/VScale px/s             *)
TestX == {-20, 0, 8, 9, 347, 350, 400, 455, 791, 792, 800, 820}
TestY == {-20, 0, 8, 9, 22, 35, 360, 375, 562, 566, 577, 600, 608, 609, 650}
TestRadius == {5, BallRadius}
TestV == {-12000, 0, 8000}
TestBalls ==
  { [x |-> x, y |-> y, vx |-> vx, vy |-> vy, radius |-> r, speed |-> Milli,
     active |-> TRUE, nanPos |-> FALSE, nanVel |-> FALSE] :
      x \in TestX, y \in TestY, vx \in TestV, vy \in TestV, r \in TestRadius }

LiveClock == 7800
MaxFrames == 3
ShortHeight == 320
MaxAiClock == 700
AiDeltas == {50, 100}
MinDelta == CHOOSE d \in DeltaSet : \A e \in DeltaSet : d <= e

DefaultDraws ==
  [ai |-> [err |-> 500, mistake |-> 999, side |-> 999],
   angle |-> 500, vx |-> 500, jx |-> 500, jy |-> 500, type |-> 0]

----------------------------------------------------------------------------
(* The engine *)

VARIABLES
  state,           \* GameEngine.state : GameState
  aiDifficulty,    \* GameEngine.config.aiDifficulty
  eventCallback,   \* GameEngine.eventCallback is set
  lastTimestamp,   \* GameEngine.lastTimestamp
  gameLoopId,      \* GameEngine.gameLoopId is not null
  frames,          \* frames requested of the browser, not yet run or cancelled
  stopped,         \* stop() has returned, and no start() or reset() call since
  activePowerUps,  \* powerups.ts: activePowerUps
  lastUpdateTime,  \* ai.ts: lastUpdateTime
  targetPosition,  \* ai.ts: targetPosition
  now,             \* the wall clock
  events,          \* the events the last step handed to eventCallback
  hits,            \* the bricks the last step ran the collision branch for
  hitBalls,        \* the ball of each of these hits, as it met the brick
  gameOverEvents,  \* game_over events handed to eventCallback in this match
  resets,          \* reset() calls so far
  pauses,          \* pause() calls so far
  caught           \* the power-ups applied in this match, each with the state before

vars == << state, aiDifficulty, eventCallback, lastTimestamp, gameLoopId, frames, stopped,
           activePowerUps, lastUpdateTime, targetPosition, now, events, hits,
           hitBalls, gameOverEvents, resets, pauses, caught >>

World ==
  [state |-> state, activePowerUps |-> activePowerUps,
   lastUpdateTime |-> lastUpdateTime, targetPosition |-> targetPosition,
   eventCallback |-> eventCallback, events |-> << >>, hits |-> << >>,
   hitBalls |-> << >>, used |-> {}]

(* the draws a tick can make: a kind of draw the tick does not make stays *)
(* at its default                                                         *)
aiChoices(w, deltaTime, difficulty, currentTime) ==
  IF ~aiRecomputes(w, difficulty, currentTime) THEN {DefaultDraws.ai}
  ELSE UNION {
         { [err |-> e, mistake |-> m, side |-> s] :
             e \in (IF difficulty = "Easy" THEN {DefaultDraws.ai.err} ELSE ErrDraws),
             s \in (IF m < difficultySettings[difficulty].errorChance
                    THEN SideDraws ELSE {DefaultDraws.ai.side}) }
         : m \in MistakeDraws }

(* the draws of the ball loop, given the kinds of draw it makes *)
ballDraws(d, used) ==
  { [d EXCEPT !.vx = vx, !.jx = jx, !.jy = jy, !.type = ty] :
      vx \in (IF "vx" \in used THEN VxDraws ELSE {DefaultDraws.vx}),
      jx \in (IF "jitter" \in used THEN JitterDraws ELSE {DefaultDraws.jx}),
      jy \in (IF "jitter" \in used THEN JitterDraws ELSE {DefaultDraws.jy}),
      ty \in (IF "type" \in used THEN TypeDraws ELSE {DefaultDraws.type}) }

(* the draws of the power-up loop: the angle of an extra ball, if one is made *)
angleDraws(wa, d, deltaTime, currentTime) ==
  IF "angle" \in powerUpStage(wa, deltaTime, currentTime, d).used
  THEN { [d EXCEPT !.angle = a] : a \in AngleDraws }
  ELSE {d}

(* the draws of a tick whose AI stage, under the draws d, has led to wa *)
drawsAfterAI(wa, d, deltaTime, currentTime) ==
  UNION { ballDraws(d2, ballStage(powerUpStage(wa, deltaTime, currentTime, d2),
                                  deltaTime, d2).used)
          : d2 \in angleDraws(wa, d, deltaTime, currentTime) }

(* the draws of a tick whose clock has been advanced already (w0) *)
drawsAfterClock(w0, deltaTime, difficulty, currentTime) ==
  UNION { drawsAfterAI(aiStage(w0, deltaTime, difficulty, currentTime, d),
                       d, deltaTime, currentTime)
          : d \in { [DefaultDraws EXCEPT !.ai = ai] :
                      ai \in aiChoices(w0, deltaTime, difficulty, currentTime) } }

tickDraws(w, deltaTime, difficulty, currentTime) ==
  drawsAfterClock([w EXCEPT !.state.timeRemaining = w.state.timeRemaining - deltaTime],
                  deltaTime, difficulty, currentTime)

(* the draws of a frame: a frame that skips update, or whose update ends at *)
(* the time-up branch, makes none                                           *)
frameDraws(w, deltaTime, difficulty, timestamp) ==
  IF w.state.paused \/ w.state.gameOver \/ isTimeUp(w, deltaTime)
  THEN {DefaultDraws}
  ELSE tickDraws(w, deltaTime, difficulty, timestamp)

Init ==
  /\ \E d \in InitDraws : state = createInitialState(d.r0, d.r1, d.layout)
  /\ aiDifficulty \in Difficulties
  /\ eventCallback = FALSE
  /\ lastTimestamp = 0
  /\ gameLoopId = FALSE
  /\ frames = 0
  /\ stopped = FALSE
  /\ activePowerUps = << >>
  /\ lastUpdateTime = 0
  /\ targetPosition = 0
  /\ now = Epoch
  /\ events = << >>
  /\ hits = << >>
  /\ gameOverEvents = 0
  /\ resets = 0
  /\ pauses = 0
  /\ hitBalls = << >>
  /\ caught = << >>

(* onEvent(callback) *)
OnEvent ==
  /\ ~eventCallback
  /\ eventCallback' = TRUE
  /\ events' = << >>
  /\ hits' = << >>
  /\ hitBalls' = << >>
  /\ UNCHANGED << state, aiDifficulty, lastTimestamp, gameLoopId, frames, stopped, activePowerUps,
                  lastUpdateTime, targetPosition, now, gameOverEvents, resets, pauses, caught >>

(* start() without "this.lastTimestamp = performance.now()" *)
StartKeepsTimestamp ==
  /\ eventCallback
  /\ gameLoopId = FALSE
  /\ gameLoopId' = TRUE
  /\ frames' = frames + 1
  /\ stopped' = FALSE
  /\ events' = << >>
  /\ hits' = << >>
  /\ hitBalls' = << >>
  /\ UNCHANGED << state, aiDifficulty, eventCallback, lastTimestamp, activePowerUps,
                  lastUpdateTime, targetPosition, now, gameOverEvents, resets, pauses,
                  caught >>

(* start(): returns at once if gameLoopId is set *)
StartLoop ==
  /\ stopped' = FALSE
  /\ IF gameLoopId
     THEN UNCHANGED << state, aiDifficulty, eventCallback, lastTimestamp, gameLoopId,
                       frames, activePowerUps, lastUpdateTime, targetPosition, now,
                       events, hits, hitBalls, gameOverEvents, resets, pauses, caught >>
     ELSE /\ lastTimestamp' = now
          /\ gameLoopId' = TRUE
          /\ frames' = frames + 1
          /\ events' = << >>
          /\ hits' = << >>
          /\ hitBalls' = << >>
          /\ UNCHANGED << state, aiDifficulty, eventCallback, activePowerUps,
                          lastUpdateTime, targetPosition, now, gameOverEvents, resets,
                          pauses, caught >>

(* stop(): cancels the frame gameLoopId names, if it is set *)
Stop ==
  /\ stopped' = TRUE
  /\ gameLoopId' = FALSE
  /\ frames' = IF gameLoopId THEN frames - 1 ELSE frames
  /\ events' = << >>
  /\ hits' = << >>
  /\ hitBalls' = << >>
  /\ UNCHANGED << state, aiDifficulty, eventCallback, lastTimestamp, activePowerUps,
                  lastUpdateTime, targetPosition, now, gameOverEvents, resets, pauses,
                  caught >>

(* start() as the page calls it: once its handler is registered *)
Start == eventCallback /\ StartLoop

(* pause(), within the caller's budget of calls *)
Pause ==
  /\ pauses < MaxPauses
  /\ state' = [state EXCEPT !.paused = TRUE]
  /\ pauses' = pauses + 1
  /\ events' = << >>
  /\ hits' = << >>
  /\ hitBalls' = << >>
  /\ UNCHANGED << aiDifficulty, eventCallback, lastTimestamp, gameLoopId, frames, stopped,
                  activePowerUps, lastUpdateTime, targetPosition, now, gameOverEvents, resets, caught >>

(* resume() clearing both flags that make the frame skip update *)
ResumeClearsGameOver ==
  /\ state.paused
  /\ state' = [state EXCEPT !.paused = FALSE, !.gameOver = FALSE]
  /\ lastTimestamp' = now
  /\ events' = << >>
  /\ hits' = << >>
  /\ hitBalls' = << >>
  /\ UNCHANGED << aiDifficulty, eventCallback, gameLoopId, frames, stopped, activePowerUps,
                  lastUpdateTime, targetPosition, now, gameOverEvents, resets, pauses, caught >>

(* resume(): does nothing unless paused *)
Resume ==
  /\ state.paused
  /\ state' = [state EXCEPT !.paused = FALSE]
  /\ lastTimestamp' = now
  /\ events' = << >>
  /\ hits' = << >>
  /\ hitBalls' = << >>
  /\ UNCHANGED << aiDifficulty, eventCallback, gameLoopId, frames, stopped, activePowerUps,
                  lastUpdateTime, targetPosition, now, gameOverEvents, resets, pauses, caught >>

(* reset(): stop(); createInitialState(); start() *)
ResetMatch ==
  /\ resets < MaxResets
  /\ \E d \in InitDraws : state' = createInitialState(d.r0, d.r1, d.layout)
  /\ lastTimestamp' = now
  /\ gameLoopId' = TRUE
  /\ frames' = (IF gameLoopId THEN frames - 1 ELSE frames) + 1
  /\ stopped' = FALSE
  /\ resets' = resets + 1
  /\ events' = << >>
  /\ hits' = << >>
  /\ hitBalls' = << >>
  /\ UNCHANGED << aiDifficulty, eventCallback, activePowerUps, lastUpdateTime,
                  targetPosition, now, pauses >>
  /\ gameOverEvents' = 0
  /\ caught' = << >>

(* reset() as the page calls it: from the game-over screen *)
Reset == state.gameOver /\ ResetMatch

(* movePlayerPaddle(position) *)
movePlayerPaddle(st, position) ==
  [st EXCEPT !.playerPaddle.x = Max(0, Min(Width - st.playerPaddle.width, position))]

MovePlayerPaddle ==
  /\ \E position \in MoveSet : state' = movePlayerPaddle(state, position)
  /\ events' = << >>
  /\ hits' = << >>
  /\ hitBalls' = << >>
  /\ UNCHANGED << aiDifficulty, eventCallback, lastTimestamp, gameLoopId, frames, stopped,
                  activePowerUps, lastUpdateTime, targetPosition, now, gameOverEvents, resets, pauses, caught >>

gameOverEventsOf(evs) == SelectSeq(evs, LAMBDA e : e.type = "game_over")

powerUpEventsOf(evs) == SelectSeq(evs, LAMBDA e : e.type = "power_up")

(* the catches that the power_up events evs report, in a tick begun in st *)
(* that ran at currentTime                                                *)
catchesOf(evs, st, currentTime) ==
  [k \in 1 .. Len(powerUpEventsOf(evs)) |->
     [type |-> powerUpEventsOf(evs)[k].powerUpType,
      player |-> powerUpEventsOf(evs)[k].player,
      at |-> currentTime,
      before |-> st]]

(* gameLoop with the skip test reduced to the paused flag *)
gameLoopIgnoresGameOver(w, deltaTime, difficulty, timestamp, draws) ==
  IF ~w.state.paused
  THEN update(w, deltaTime, difficulty, timestamp, draws)
  ELSE w

(* the frame's effect on the world: "skip update if paused or game over" *)
gameLoop(w, deltaTime, difficulty, timestamp, draws) ==
  IF ~w.state.paused /\ ~w.state.gameOver
  THEN update(w, deltaTime, difficulty, timestamp, draws)
  ELSE w

(* the body of gameLoop(timestamp) up to "schedule next frame", run dt ms *)
(* after the last step                                                    *)
Tick(limit) ==
  /\ \E dt \in DeltaSet :
       /\ now + dt <= limit
       /\ \E draws \in frameDraws(World, now + dt - lastTimestamp, aiDifficulty, now + dt) :
            \E w \in {gameLoop(World, now + dt - lastTimestamp, aiDifficulty, now + dt,
                               draws)} :
               /\ state' = w.state
               /\ activePowerUps' = w.activePowerUps
               /\ lastUpdateTime' = w.lastUpdateTime
               /\ targetPosition' = w.targetPosition
               /\ events' = w.events
               /\ hits' = w.hits
               /\ hitBalls' = w.hitBalls
               /\ gameOverEvents' = gameOverEvents + Len(gameOverEventsOf(w.events))
               /\ caught' = caught \o catchesOf(w.events, state, now + dt)
               /\ now' = now + dt
               /\ lastTimestamp' = now + dt
  /\ UNCHANGED << aiDifficulty, eventCallback, resets, pauses >>

(* gameLoop(timestamp): the pending frame runs and requests the next one *)
Frame(limit) ==
  /\ gameLoopId = TRUE
  /\ Tick(limit)
  /\ gameLoopId' = TRUE
  /\ UNCHANGED << frames, stopped >>

GameLoop == Frame(Epoch + MaxClock)

(* what the event handler does with the engine while a tick is running *)
HandlerCalls == {<< >>, <<"stop">>, <<"start">>, <<"stop", "start">>}

(* gameLoop(timestamp) with a handler that calls stop() and start(): a   *)
(* requested frame runs, the one gameLoopId names (own) or another one;  *)
(* the handler, if the tick hands it an event, makes its calls; then the *)
(* next frame is requested and gameLoopId set to it. cancelAnimationFrame *)
(* of the frame that is running cancels nothing                          *)
HandlerFrame ==
  /\ frames > 0
  /\ Tick(Epoch + MaxClock)
  /\ gameLoopId' = TRUE
  /\ \E own \in BOOLEAN, calls \in HandlerCalls :
       /\ IF own THEN gameLoopId ELSE frames > (IF gameLoopId THEN 1 ELSE 0)
       /\ calls # << >> => events' # << >>
       /\ LET running == frames - 1
              afterStop == IF calls # << >> /\ calls[1] = "stop"
                           THEN [id |-> FALSE,
                                 n |-> IF gameLoopId /\ ~own THEN running - 1
                                       ELSE running]
                           ELSE [id |-> gameLoopId, n |-> running]
              afterStart == IF calls # << >> /\ calls[Len(calls)] = "start"
                                /\ ~afterStop.id
                            THEN afterStop.n + 1
                            ELSE afterStop.n
          IN /\ afterStart + 1 <= MaxFrames
             /\ frames' = afterStart + 1
       /\ stopped' = IF calls = << >> THEN stopped ELSE calls[Len(calls)] = "stop"

(* the frames of one match that is played to its end: the clock of the   *)
(* model runs to LiveClock, and a frame that finds the match paused is   *)
(* delivered while the clock still has room for the rest of the match    *)
liveLimit ==
  IF state.paused /\ ~state.gameOver
  THEN Epoch + LiveClock - state.timeRemaining - (MinDelta - 1)
  ELSE Epoch + LiveClock

LiveGameLoop == Frame(liveLimit)

(* what a frame does to the clock. The frame is the only step that moves *)
(* the clock, and one is due whenever the loop runs and the clock of the *)
(* model has room for it, so <<LiveTick>>_now is the step LiveGameLoop,  *)
(* enabled in the same states                                            *)
LiveTick ==
  /\ gameLoopId = TRUE
  /\ \E dt \in DeltaSet :
       /\ now + dt <= liveLimit
       /\ now' = now + dt

(* applyPowerUp(gameState, powerUp, player), called at the current time *)
ApplyPowerUp ==
  /\ Len(caught) < MaxCatches
  /\ \E type \in PowerUpTypes, player \in {"human", "ai"} :
       \E a \in {DefaultDraws.angle} :
          \E w \in {applyPowerUp(World, [type |-> type], player, now,
                                 extraBallAngle(a))} :
             /\ state' = w.state
             /\ activePowerUps' = w.activePowerUps
             /\ caught' = Append(caught, [type |-> type, player |-> player,
                                          at |-> now, before |-> state])
  /\ events' = << >>
  /\ hits' = << >>
  /\ hitBalls' = << >>
  /\ UNCHANGED << aiDifficulty, eventCallback, lastTimestamp, gameLoopId, frames, stopped,
                  lastUpdateTime, targetPosition, now, gameOverEvents, resets, pauses >>

(* updatePowerUps(state, Date.now()), called dt ms after the last step *)
UpdatePowerUps ==
  /\ \E dt \in EffectDeltas :
       /\ now + dt <= Epoch + MaxEffectClock
       /\ \E w \in {updatePowerUps(World, now + dt)} :
            /\ state' = w.state
            /\ activePowerUps' = w.activePowerUps
            /\ now' = now + dt
  /\ events' = << >>
  /\ hits' = << >>
  /\ hitBalls' = << >>
  /\ UNCHANGED << aiDifficulty, eventCallback, lastTimestamp, gameLoopId, frames, stopped,
                  lastUpdateTime, targetPosition, gameOverEvents, resets, pauses,
                  caught >>

(* updateAI(gameState, deltaTime, gameWidth, difficulty), called dt ms *)
(* after the last step, as update calls it in a match that goes on    *)
UpdateAI ==
  /\ \E dt \in AiDeltas :
       /\ now + dt <= Epoch + MaxAiClock
       /\ \E ai \in aiChoices(World, dt, aiDifficulty, now + dt) :
            \E w \in {updateAI(World, dt, Width, aiDifficulty, now + dt, ai)} :
               /\ state' = w.state
               /\ lastUpdateTime' = w.lastUpdateTime
               /\ targetPosition' = w.targetPosition
               /\ now' = now + dt
  /\ events' = << >>
  /\ hits' = << >>
  /\ hitBalls' = << >>
  /\ UNCHANGED << aiDifficulty, eventCallback, lastTimestamp, gameLoopId, frames, stopped,
                  activePowerUps, gameOverEvents, resets, pauses, caught >>

Next ==
  \/ OnEvent
  \/ Start
  \/ Pause
  \/ Resume
  \/ Reset
  \/ MovePlayerPaddle
  \/ GameLoop

Spec == Init /\ [][Next]_vars

(* powerups.ts under its callers: power-ups are applied, time passes and *)
(* the timed effects expire, the match is reset                         *)
PowerUpNext == ApplyPowerUp \/ UpdatePowerUps \/ ResetMatch

PowerUpSpec == Init /\ [][PowerUpNext]_vars

(* one match under the page's scheduling: the handler is registered and *)
(* the loop started (the effect that mounts the game), every frame asks *)
(* for the next one with requestAnimationFrame, and a paused match is   *)
(* resumed at some time                                                 *)
LiveNext ==
  \/ OnEvent
  \/ Start
  \/ Pause
  \/ Resume
  \/ MovePlayerPaddle
  \/ LiveGameLoop

LiveSpec ==
  /\ Init
  /\ [][LiveNext]_vars
  /\ WF_vars(OnEvent)
  /\ WF_vars(Start)
  /\ WF_vars(Resume)
  /\ WF_now(LiveTick)

LoopNext ==
  \/ OnEvent
  \/ Start
  \/ Stop
  \/ Reset
  \/ HandlerFrame

(* the frame loop under start(), stop() and reset() calls of the page *)
(* and of its event handler                                            *)
LoopSpec == Init /\ [][LoopNext]_vars

(* powerups.ts under an engine made with new GameEngine({height}): the *)
(* match starts from createInitialState for a configured height of     *)
(* ShortHeight or of the default, and power-ups are applied            *)
ConfigInit ==
  /\ \E d \in InitDraws, height \in {ShortHeight, DefaultHeight} :
       state = [createInitialState(d.r0, d.r1, d.layout) EXCEPT
                  !.balls[1].y = height - BallStartOffset,
                  !.playerPaddle.y = height - PlayerPaddleOffset,
                  !.bricks = createBricks(height - PlayerBrickOffset, FALSE, d.layout, 0)
                               \o createBricks(AiBrickStartY, TRUE, d.layout,
                                               BrickRows * BrickCols)]
  /\ aiDifficulty \in Difficulties
  /\ eventCallback = FALSE
  /\ lastTimestamp = 0
  /\ gameLoopId = FALSE
  /\ frames = 0
  /\ stopped = FALSE
  /\ activePowerUps = << >>
  /\ lastUpdateTime = 0
  /\ targetPosition = 0
  /\ now = Epoch
  /\ events = << >>
  /\ hits = << >>
  /\ hitBalls = << >>
  /\ gameOverEvents = 0
  /\ resets = 0
  /\ pauses = 0
  /\ caught = << >>

ConfigSpec == ConfigInit /\ [][ApplyPowerUp]_vars

(* ai.ts under its caller: updateAI is called tick after tick, at frame *)
(* intervals shorter than the reaction delays, and the match is reset   *)
AiNext == UpdateAI \/ ResetMatch

AiSpec == Init /\ [][AiNext]_vars

(* the engine under a caller that never registers a handler *)
NoHandlerNext ==
  \/ StartLoop
  \/ Pause
  \/ Resume
  \/ Reset
  \/ MovePlayerPaddle
  \/ GameLoop

NoHandlerSpec == Init /\ [][NoHandlerNext]_vars

(* physics.ts under test: the match holds one ball, drawn from TestBalls, *)
(* and a step applies one of the collision responses to the drawn ball   *)
PhysicsInit ==
  /\ \E b \in TestBalls :
       state = [createInitialState(DefaultDraws.vx, DefaultDraws.vx, << 0, 999 >>)
                  EXCEPT !.balls = << b >>]
  /\ aiDifficulty = "Normal"
  /\ eventCallback = FALSE
  /\ lastTimestamp = 0
  /\ gameLoopId = FALSE
  /\ frames = 0
  /\ stopped = FALSE
  /\ activePowerUps = << >>
  /\ lastUpdateTime = 0
  /\ targetPosition = 0
  /\ now = Epoch
  /\ events = << >>
  /\ hits = << >>
  /\ hitBalls = << >>
  /\ gameOverEvents = 0
  /\ resets = 0
  /\ pauses = 0
  /\ caught = << >>

(* handleWallCollision(ball, width) *)
HandleWallCollision ==
  /\ state.balls[1] \in TestBalls
  /\ state' = [state EXCEPT !.balls[1] = handleWallCollision(state.balls[1], Width)]
  /\ UNCHANGED << aiDifficulty, eventCallback, lastTimestamp, gameLoopId, frames, stopped,
                  activePowerUps, lastUpdateTime, targetPosition, now, events, hits,
                  hitBalls, gameOverEvents, resets, pauses, caught >>

(* "check paddle collisions": handlePaddleCollision for the paddle the ball meets *)
HandlePaddleCollision ==
  /\ state.balls[1] \in TestBalls
  /\ state' = [state EXCEPT !.balls[1] =
                  paddleCheck([w |-> World, ball |-> state.balls[1]]).ball]
  /\ UNCHANGED << aiDifficulty, eventCallback, lastTimestamp, gameLoopId, frames, stopped,
                  activePowerUps, lastUpdateTime, targetPosition, now, events, hits,
                  hitBalls, gameOverEvents, resets, pauses, caught >>

(* handleBrickCollision(ball, brick) for a brick that the ball overlaps *)
HandleBrickCollision ==
  /\ state.balls[1] \in TestBalls
  /\ \E j \in 1 .. Len(state.bricks) :
       /\ ballHits(state.balls[1], state.bricks[j])
       /\ \E jx \in JitterDraws, jy \in JitterDraws :
            state' = [state EXCEPT !.balls[1] =
                        handleBrickCollision(state.balls[1], state.bricks[j],
                                             RoundDiv((jx - 500) * 2, Milli),
                                             RoundDiv((jy - 500) * 2, Milli))]
  /\ UNCHANGED << aiDifficulty, eventCallback, lastTimestamp, gameLoopId, frames, stopped,
                  activePowerUps, lastUpdateTime, targetPosition, now, events, hits,
                  hitBalls, gameOverEvents, resets, pauses, caught >>

(* predictBallLanding(ball, width, aiPaddle.position.y, bricks, difficulty) *)
(* for each tier, the result kept as the target                            *)
PredictBallLanding ==
  /\ state.balls[1] \in TestBalls
  /\ \E d \in Difficulties, r \in ErrDraws :
       targetPosition' = predictBallLanding(state.balls[1], Width, state.aiPaddle.y,
                                            state.bricks, d, r)
  /\ UNCHANGED << state, aiDifficulty, eventCallback, lastTimestamp, gameLoopId, frames,
                  stopped, activePowerUps, lastUpdateTime, now, events, hits, hitBalls,
                  gameOverEvents, resets, pauses, caught >>

PhysicsNext ==
  \/ HandleWallCollision
  \/ HandlePaddleCollision
  \/ HandleBrickCollision
  \/ PredictBallLanding

PhysicsSpec == PhysicsInit /\ [][PhysicsNext]_vars

----------------------------------------------------------------------------
(* Properties of the engine, C1 to C10 *)

(* C1: a frame that runs while the match is paused or over is a no-op on the *)
(* match: it leaves every field of the state (balls, paddles, bricks,        *)
(* power-ups, scores, lives, timeRemaining, flags) as it was and hands no    *)
(* event to the handler. A frame is the only step that advances the clock.   *)
C1_SkippedFrameIsNoOp ==
  [][(now' # now /\ (state.paused \/ state.gameOver))
       => (state' = state /\ events' = << >>)]_vars

(* a paused, unfinished first match over which more wall-clock time has run *)
(* than game time: at least one frame ran while it was paused               *)
C1_Witness ==
  /\ state.paused /\ ~state.gameOver
  /\ resets = 0
  /\ state.timeRemaining < GameDuration
  /\ now - Epoch > GameDuration - state.timeRemaining

(* C2: gameOver is terminal. Once it is true no tick, pause, resume or *)
(* paddle move makes it false again: only reset() does.                *)
C2_GameOverTerminal ==
  [][(state.gameOver /\ resets' = resets) => state'.gameOver]_vars

(* a first match that ended on lives, was never paused, and over which frames *)
(* went on running after its end                                              *)
C2_Witness ==
  /\ state.gameOver
  /\ state.timeRemaining > 0
  /\ resets = 0 /\ pauses = 0
  /\ now - Epoch > GameDuration - state.timeRemaining

(* C3: over one match (construction or reset() up to the next reset()) the *)
(* handler receives at most one game_over event, also when several balls   *)
(* are lost in the same tick.                                              *)
C3_AtMostOneGameOverEvent == gameOverEvents <= 1

(* C4: playerLives >= 0 and aiLives >= 0 in every state. *)
C4_LivesNonNegative == state.playerLives >= 0 /\ state.aiLives >= 0

(* C5: a tick that starts with playerLives = 1 and loses a human ball ends   *)
(* with playerLives = 0 and gameOver, having emitted life_lost (human, 0)    *)
(* and then game_over (winner ai), with a lost ball left below the bottom    *)
(* edge instead of being put back on the paddle.                             *)
C5_LastLifeLost ==
  [][(/\ now' # now
      /\ ~state.paused /\ ~state.gameOver
      /\ state.playerLives = 1
      /\ state'.playerLives < 1)
       => (/\ state'.playerLives = 0
           /\ state'.gameOver
           /\ \E k \in 1 .. Len(events') - 1 :
                /\ events'[k] = [type |-> "life_lost", player |-> "human", value |-> 0]
                /\ events'[k + 1] = [type |-> "game_over", player |-> "ai"]
           /\ \E i \in 1 .. Len(state'.balls) :
                isBallLost(state'.balls[i], Height))]_vars

(* C6: the tick in which timeRemaining - deltaTime <= 0 sets timeRemaining *)
(* to 0 and gameOver to true and emits exactly one game_over event, whose  *)
(* winner is human if playerScore > aiScore, ai if playerScore < aiScore   *)
(* and tie if they are equal: lives and bricks play no part.               *)
C6_TimeUpWinnerByScore ==
  [][(/\ now' # now
      /\ ~state.paused /\ ~state.gameOver
      /\ state.timeRemaining - (now' - lastTimestamp) <= 0)
       => (/\ state'.timeRemaining = 0
           /\ state'.gameOver
           /\ gameOverEventsOf(events') =
                << [type |-> "game_over",
                    player |-> IF state.playerScore > state.aiScore THEN "human"
                               ELSE IF state.playerScore < state.aiScore THEN "ai"
                               ELSE "tie"] >>)]_vars

(* the time ran out on equal, non-zero scores: the tick announced a tie *)
C6_Witness ==
  /\ state.gameOver /\ state.timeRemaining = 0
  /\ state.playerScore = state.aiScore /\ state.playerScore > 0
  /\ events = << [type |-> "game_over", player |-> "tie"] >>

(* C7: both paddles stay inside the field, 0 <= x <= Width - width, in *)
(* every state, also after an ExpandPaddle catch or expiry.            *)
C7_PaddlesInField ==
  /\ 0 <= state.playerPaddle.x
  /\ state.playerPaddle.x <= Width - state.playerPaddle.width
  /\ 0 <= state.aiPaddle.x
  /\ state.aiPaddle.x <= Width - state.aiPaddle.width

C9_ScoresMonotone ==
  [][resets' = resets => (/\ state'.playerScore >= state.playerScore
                          /\ state'.aiScore >= state.aiScore)]_vars

(* a tick scored for a side that already had points *)
C9_Witness ==
  /\ \E k \in 1 .. Len(events) :
       /\ events[k].type = "score"
       /\ events[k].value > NormalPoints + SpecialPoints
  /\ state.playerScore > 0 /\ state.aiScore > 0

(* C10: within a match a brick's active flag goes from true to false at    *)
(* most once and never back, and a brick that is inactive when a tick      *)
(* starts is not hit in it: it is not tested, scores nothing and spawns no *)
(* power-up. A brick is hit at most once in a tick, and only if active.    *)
C10_BrickDestroyedOnce ==
  [][resets' = resets =>
       /\ \A j \in 1 .. Len(state.bricks) :
            ~state.bricks[j].active =>
              /\ ~state'.bricks[j].active
              /\ \A k \in 1 .. Len(hits') : hits'[k] # j
       /\ \A k \in 1 .. Len(hits') :
            /\ state.bricks[hits'[k]].active
            /\ ~state'.bricks[hits'[k]].active
            /\ \A l \in 1 .. Len(hits') : hits'[l] = hits'[k] => l = k]_vars

(* a tick hit a brick while one of its balls ended inside the reach of   *)
(* another brick, destroyed in an earlier tick, that the loop passed over *)
C10_Witness ==
  /\ hits # << >>
  /\ \E i \in 1 .. Len(state.balls), j \in 1 .. Len(state.bricks) :
       /\ state.balls[i].active
       /\ ~state.bricks[j].active
       /\ ballHits(state.balls[i], state.bricks[j])
       /\ \A k \in 1 .. Len(hits) : hits[k] # j

----------------------------------------------------------------------------
(* Properties of the engine, C11 to C20 *)

(* the Special bricks among the bricks hs that a tick destroyed, in order *)
specialHits(bricks, hs) == SelectSeq(hs, LAMBDA j : bricks[j].type = "special")

(* C11: each destruction of a Special brick appends exactly one power-up to *)
(* state.powerUps, at the brick's position, active and of one of the three  *)
(* types; destroying a Normal brick appends none. So after a tick the list  *)
(* ends with one power-up per Special brick destroyed in it, in the order   *)
(* of destruction, and whatever precedes them was in the list before.       *)
C11_SpecialBrickSpawnsOne ==
  [][now' # now =>
       LET spawned == specialHits(state.bricks, hits')
           kept == Len(state'.powerUps) - Len(spawned)
       IN /\ kept >= 0
          /\ kept <= Len(state.powerUps)
          /\ \A k \in 1 .. kept :
               \E m \in 1 .. Len(state.powerUps) :
                  /\ state.powerUps[m].x = state'.powerUps[k].x
                  /\ state.powerUps[m].type = state'.powerUps[k].type
          /\ \A k \in 1 .. Len(spawned) :
               /\ state'.powerUps[kept + k].x = state.bricks[spawned[k]].x
               /\ state'.powerUps[kept + k].y = state.bricks[spawned[k]].y
               /\ state'.powerUps[kept + k].active
               /\ state'.powerUps[kept + k].type \in PowerUpTypes]_vars

(* a tick destroyed a Special and a Normal brick and left one power-up *)
C11_Witness ==
  /\ \E k, l \in 1 .. Len(hits) :
       /\ state.bricks[hits[k]].type = "special"
       /\ state.bricks[hits[l]].type = "normal"
  /\ Len(state.powerUps) = Len(specialHits(state.bricks, hits))
  /\ Len(state.powerUps) = 1

(* C12: every applied ExpandPaddle or SlowBall effect is reverted exactly  *)
(* once by its expiry. In a match that was never reset and in which one   *)
(* power-up was applied, the updatePowerUps call that empties the         *)
(* registry leaves both paddle widths and the speed of every ball as they *)
(* were before the catch, however many balls were active at the catch.    *)
C12_ExpiryRestores ==
  [][(/\ resets = 0 /\ resets' = 0
      /\ Len(caught) = 1 /\ caught' = caught
      /\ activePowerUps # << >> /\ activePowerUps' = << >>)
       => (/\ state'.playerPaddle.width = caught[1].before.playerPaddle.width
           /\ state'.aiPaddle.width = caught[1].before.aiPaddle.width
           /\ Len(state'.balls) = Len(caught[1].before.balls)
           /\ \A i \in 1 .. Len(state'.balls) :
                state'.balls[i].speed = caught[1].before.balls[i].speed)]_vars

(* the catch k whose timed effect runs out in the step from now to now' *)
expiresNow(c, from, to) ==
  /\ c.type = "slow_ball"
  /\ from < c.at + SlowDuration
  /\ c.at + SlowDuration <= to

(* C13: an expiring effect corrects only its own target. In a match that   *)
(* was never reset, a step in which no ExpandPaddle entry of a side runs   *)
(* out leaves that side's paddle as it is, and a step raises the speed of  *)
(* a ball only if a SlowBall effect runs out in it that was applied when   *)
(* the ball was already in play (a ball added by ExtraBall afterwards is   *)
(* not sped up).                                                           *)
C13_ExpiryCorrectsOwnTarget ==
  [][(resets = 0 /\ resets' = 0 /\ caught' = caught /\ now' # now)
       => (/\ (\A k \in 1 .. Len(activePowerUps) :
                  ~(/\ activePowerUps[k].type = "expand_paddle"
                    /\ activePowerUps[k].player = "human"
                    /\ activePowerUps[k].expiresAt <= now'))
                => state'.playerPaddle = state.playerPaddle
           /\ (\A k \in 1 .. Len(activePowerUps) :
                  ~(/\ activePowerUps[k].type = "expand_paddle"
                    /\ activePowerUps[k].player = "ai"
                    /\ activePowerUps[k].expiresAt <= now'))
                => state'.aiPaddle = state.aiPaddle
           /\ \A i \in 1 .. Len(state.balls) :
                state'.balls[i].speed > state.balls[i].speed
                  => \E k \in 1 .. Len(caught) :
                        /\ expiresNow(caught[k], now, now')
                        /\ i <= Len(caught[k].before.balls))]_vars

(* C14: no state leaks across reset(). As long as no power-up has been    *)
(* applied in the match that a reset() began, its paddles keep the width  *)
(* and its balls the speed of a freshly constructed match: no timed       *)
(* effect registered before the reset alters them.                        *)
C14_FreshAfterReset ==
  (resets > 0 /\ caught = << >>)
    => (/\ state.playerPaddle.width = PaddleWidth
        /\ state.aiPaddle.width = PaddleWidth
        /\ \A i \in 1 .. Len(state.balls) :
             state.balls[i].speed = Milli)

(* the score events among evs, in order *)
scoreEventsOf(evs) == SelectSeq(evs, LAMBDA e : e.type = "score")

(* C15: when a ball destroys a brick the side credited follows the ball's *)
(* vertical direction as it hits the brick: every hit of a tick has its   *)
(* score event, for the human if the ball met the brick moving upward     *)
(* (velocity.y < 0) and for the AI if it met it moving downward.          *)
C15_ScoreSideByDirection ==
  [][now' # now =>
       /\ Len(scoreEventsOf(events')) = Len(hits')
       /\ \A k \in 1 .. Len(hits') :
            /\ vyNegative(hitBalls'[k]) => scoreEventsOf(events')[k].player = "human"
            /\ vyPositive(hitBalls'[k]) => scoreEventsOf(events')[k].player = "ai"]_vars

(* the ball, moved for deltaTime ms, is above the top edge and moving up *)
crossesTop(ball, deltaTime) ==
  /\ vyNegative(ball)
  /\ ~updateBallPosition(ball, deltaTime, FALSE).nanPos
  /\ updateBallPosition(ball, deltaTime, FALSE).y < 0

(* C16: a ball that crosses above the top edge of the arena while moving  *)
(* with negative velocity.y is lost for the AI side: the tick decrements  *)
(* aiLives and emits life_lost for the AI, and when aiLives reaches 0 the *)
(* match ends with winner human. (Ticks in which no power-up is in play,  *)
(* so that the balls move at the speed they have when the tick starts.)   *)
C16_TopCrossingCostsAiLife ==
  [][(/\ now' # now
      /\ ~state.paused /\ ~state.gameOver
      /\ state.timeRemaining - (now' - lastTimestamp) > 0
      /\ state.powerUps = << >> /\ activePowerUps = << >>
      /\ \E i \in 1 .. Len(state.balls) :
           state.balls[i].active /\ crossesTop(state.balls[i], now' - lastTimestamp))
       => (/\ state'.aiLives < state.aiLives
           /\ \E k \in 1 .. Len(events') :
                events'[k].type = "life_lost" /\ events'[k].player = "ai"
           /\ state'.aiLives = 0
                => (/\ state'.gameOver
                    /\ \E k \in 1 .. Len(events') :
                         events'[k] = [type |-> "game_over", player |-> "human"]))]_vars

(* the ball, moved for deltaTime ms, is below the bottom edge and moving down *)
dropsOut(ball, deltaTime) ==
  /\ vyPositive(ball)
  /\ isBallLost(handleWallCollision(updateBallPosition(ball, deltaTime, FALSE), Width),
                Height)

lifeLostEventsOf(evs, player) ==
  SelectSeq(evs, LAMBDA e : e.type = "life_lost" /\ e.player = player)

(* the lives the human has left once ball i of a tick's loop, which runs *)
(* from the last ball to the first, has been handled                     *)
livesAfter(st, i, deltaTime) ==
  st.playerLives
    - Cardinality({j \in i .. Len(st.balls) :
                     st.balls[j].active /\ dropsOut(st.balls[j], deltaTime)})

(* C17: a ball below the bottom edge with velocity.y > 0 costs the human   *)
(* exactly one life in that tick: playerLives falls by the number of       *)
(* life_lost events for the human, each naming one life less than the one  *)
(* before. In a tick with no power-up in play each ball that ends below    *)
(* the bottom edge moving down is one of them, and if lives remain that    *)
(* same ball is put at the player paddle's horizontal centre, 20 units     *)
(* above the paddle, with velocity.y = -300; no ball is added or removed.  *)
C17_BottomCrossingCostsOneLife ==
  [][(/\ now' # now
      /\ ~state.paused /\ ~state.gameOver
      /\ state.timeRemaining - (now' - lastTimestamp) > 0)
       => (/\ state'.playerLives =
                state.playerLives - Len(lifeLostEventsOf(events', "human"))
           /\ \A k \in 1 .. Len(lifeLostEventsOf(events', "human")) :
                lifeLostEventsOf(events', "human")[k].value = state.playerLives - k
           /\ (state.powerUps = << >> /\ activePowerUps = << >>)
                => (/\ Len(state'.balls) = Len(state.balls)
                    /\ \A i \in 1 .. Len(state.balls) :
                         (state.balls[i].active
                          /\ dropsOut(state.balls[i], now' - lastTimestamp))
                           => (/\ state'.playerLives < state.playerLives
                               /\ livesAfter(state, i, now' - lastTimestamp) > 0
                                    => (/\ state'.balls[i].x =
                                             state'.playerPaddle.x
                                               + state'.playerPaddle.width \div 2
                                        /\ state'.balls[i].y =
                                             state'.playerPaddle.y - RespawnGap
                                        /\ state'.balls[i].vy = -LaunchSpeed * VScale
                                        /\ ~state'.balls[i].nanVel
                                        /\ ~state'.balls[i].nanPos))))]_vars

(* a tick took the human's lives from 2 to 1 and put the lost ball back on *)
(* the paddle, which the player had moved to the left edge before          *)
C17_Witness ==
  /\ events # << >>
  /\ lifeLostEventsOf(events, "human") =
       << [type |-> "life_lost", player |-> "human", value |-> 1] >>
  /\ state.playerPaddle.x = 0
  /\ \E i \in 1 .. Len(state.balls) :
       /\ state.balls[i].x = state.playerPaddle.width \div 2
       /\ state.balls[i].y = state.playerPaddle.y - RespawnGap
       /\ state.balls[i].vy = -LaunchSpeed * VScale

C19_UncaughtPowerUpStays ==
  [][(/\ now' # now
      /\ ~state.paused /\ ~state.gameOver
      /\ state.timeRemaining - (now' - lastTimestamp) > 0
      /\ powerUpEventsOf(events') = << >>)
       => \A m \in 1 .. Len(state.powerUps) :
            (/\ ~updatePowerUp(state.powerUps[m], state.playerPaddle, Height,
                               now' - lastTimestamp).caught
             /\ updatePowerUp(state.powerUps[m], state.playerPaddle, Height,
                              now' - lastTimestamp).powerUp.active)
              => \E k \in 1 .. Len(state'.powerUps) :
                    /\ state'.powerUps[k].x = state.powerUps[m].x
                    /\ state'.powerUps[k].type = state.powerUps[m].type
                    /\ state'.powerUps[k].active]_vars

(* the side that catches power-up p in a tick of deltaTime ms, given the *)
(* two paddles as the power-up loop finds them: the player's call comes   *)
(* first, the AI's second                                                 *)
caughtBy(p, playerPaddle, aiPaddle, deltaTime) ==
  IF updatePowerUp(p, playerPaddle, Height, deltaTime).caught THEN "human"
  ELSE IF updatePowerUp(updatePowerUp(p, playerPaddle, Height, deltaTime).powerUp,
                        aiPaddle, 0, -deltaTime).caught
       THEN "ai"
       ELSE "none"

(* one application of a power-up of the given type for player leads from *)
(* the state st and registry ap to st2 and ap2                           *)
appliedOnce(st, ap, st2, ap2, type, player) ==
  CASE type = "expand_paddle" ->
         /\ paddleOf(st2, player).width = Scale(paddleOf(st, player).width, 3, 2)
         /\ paddleOf(st2, IF player = "human" THEN "ai" ELSE "human").width
              = paddleOf(st, IF player = "human" THEN "ai" ELSE "human").width
         /\ ap2 = Append(ap, [type |-> type, player |-> player,
                              expiresAt |-> ap2[Len(ap2)].expiresAt])
         /\ Len(st2.balls) = Len(st.balls)
    [] type = "extra_ball" ->
         /\ Len(st2.balls) = Len(st.balls)
              + (IF CountInHalf(st.balls, player) < MaxExtraBalls THEN 1 ELSE 0)
         /\ \A i \in 1 .. Len(st.balls) : st2.balls[i].speed = st.balls[i].speed
         /\ st2.playerPaddle.width = st.playerPaddle.width
         /\ ap2 = ap
    [] type = "slow_ball" ->
         /\ Len(st2.balls) = Len(st.balls)
         /\ \A i \in 1 .. Len(st.balls) :
              st2.balls[i].speed = Scale(st.balls[i].speed, 7, 10)
         /\ st2.playerPaddle.width = st.playerPaddle.width
         /\ Len(ap2) > Len(ap)

(* C20: a power-up is caught by at most one side. A tick emits one        *)
(* power_up event for each power-up that a paddle catches in it, naming   *)
(* the catching side and the power-up's type, and no other; the caught    *)
(* power-up is in state.powerUps no more, neither where it was nor where  *)
(* it fell to; and the tick of a single catch shows the effect applied    *)
(* exactly once, to the catching side.                                    *)
C20_CaughtOnce ==
  [][(/\ now' # now
      /\ ~state.paused /\ ~state.gameOver
      /\ state.timeRemaining - (now' - lastTimestamp) > 0)
       => (/\ Len(powerUpEventsOf(events')) =
                Cardinality({m \in 1 .. Len(state.powerUps) :
                               caughtBy(state.powerUps[m], state.playerPaddle,
                                        state'.aiPaddle, now' - lastTimestamp) # "none"})
           /\ \A m \in 1 .. Len(state.powerUps) :
                caughtBy(state.powerUps[m], state.playerPaddle, state'.aiPaddle,
                         now' - lastTimestamp) # "none"
                  => (/\ \E k \in 1 .. Len(events') :
                           events'[k] =
                             [type |-> "power_up",
                              player |-> caughtBy(state.powerUps[m], state.playerPaddle,
                                                  state'.aiPaddle, now' - lastTimestamp),
                              powerUpType |-> state.powerUps[m].type]
                      /\ \A k \in 1 .. Len(state'.powerUps) :
                           /\ state'.powerUps[k] # state.powerUps[m]
                           /\ state'.powerUps[k] #
                                updatePowerUp(state.powerUps[m], state.playerPaddle,
                                              Height, now' - lastTimestamp).powerUp)
           /\ Len(powerUpEventsOf(events')) = 1
                => appliedOnce(state, activePowerUps, state', activePowerUps',
                               powerUpEventsOf(events')[1].powerUpType,
                               powerUpEventsOf(events')[1].player))]_vars

(* a tick in which the player paddle caught a slow_ball power-up while two *)
(* balls were in play: one event, both balls slowed once, the list empty   *)
C20_Witness ==
  /\ powerUpEventsOf(events) =
       << [type |-> "power_up", player |-> "human", powerUpType |-> "slow_ball"] >>
  /\ Len(caught) = 1
  /\ state.powerUps = << >>
  /\ Len(state.balls) = 2
  /\ \A i \in 1 .. Len(state.balls) : state.balls[i].speed = Scale(Milli, 7, 10)

----------------------------------------------------------------------------
(* Properties of the engine, C21 to C30 *)

timeUpdateEventsOf(evs) == SelectSeq(evs, LAMBDA e : e.type = "time_update")

(* C21: a time_update event is emitted once per whole second crossed by   *)
(* the clock: a tick emits as many time_update events as the whole        *)
(* seconds of timeRemaining have fallen by in it, and none if they have   *)
(* not.                                                                   *)
C21_TimeUpdatePerSecond ==
  [][(now' # now /\ ~state.paused /\ ~state.gameOver)
       => Len(timeUpdateEventsOf(events')) =
            state.timeRemaining \div Milli - state'.timeRemaining \div Milli]_vars

(* the worlds a and b hold the same match: state, timed effects, AI memory, *)
(* bricks hit and draws made                                               *)
sameMatch(a, b) ==
  /\ a.state = b.state
  /\ a.activePowerUps = b.activePowerUps
  /\ a.lastUpdateTime = b.lastUpdateTime
  /\ a.targetPosition = b.targetPosition
  /\ a.hits = b.hits
  /\ a.used = b.used

(* the frame at timestamp under the draws leads w to the same match with *)
(* and without a handler, and without one it hands out no event          *)
handlerBlind(w, deltaTime, difficulty, timestamp, draws) ==
  /\ sameMatch(gameLoop([w EXCEPT !.eventCallback = FALSE], deltaTime, difficulty,
                         timestamp, draws),
               gameLoop([w EXCEPT !.eventCallback = TRUE], deltaTime, difficulty,
                        timestamp, draws))
  /\ gameLoop([w EXCEPT !.eventCallback = FALSE], deltaTime, difficulty, timestamp,
              draws).events = << >>

(* C22: registering an event handler does not change the simulation. From *)
(* every state that a match run without a handler reaches, every frame,   *)
(* under every choice of its random draws, leads to the same match state  *)
(* with a handler as without; without one no event is handed out and the  *)
(* frame is evaluated without error.                                      *)
C22_HandlerDoesNotChangeSimulation ==
  /\ ~eventCallback
  /\ events = << >>
  /\ \A dt \in DeltaSet :
       \A draws \in frameDraws(World, now + dt - lastTimestamp, aiDifficulty, now + dt) :
          handlerBlind(World, now + dt - lastTimestamp, aiDifficulty, now + dt, draws)

(* a match run without a handler in which bricks were destroyed for both *)
(* sides and a life was lost                                             *)
C22_Witness ==
  /\ ~eventCallback
  /\ state.playerScore > 0 /\ state.aiScore > 0
  /\ state.playerLives < InitialLives
  /\ ~state.gameOver

(* the points of the bricks hs[1 .. k] whose score event names player *)
RECURSIVE pointsUpTo(_, _, _, _, _)
pointsUpTo(scores, hs, bricks, k, player) ==
  IF k = 0 THEN 0
  ELSE pointsUpTo(scores, hs, bricks, k - 1, player)
         + (IF scores[k].player = player THEN bricks[hs[k]].points ELSE 0)

(* C23: every emitted event carries the value of the state at the moment  *)
(* of emission. In a tick the k-th score event names the credited side's  *)
(* total after the bricks hit so far, the last one the total the tick     *)
(* ends with; the k-th life_lost event of a side names its lives after k  *)
(* decrements; a time_update names the whole seconds of timeRemaining.    *)
C23_EventsCarryState ==
  [][(now' # now /\ ~state.paused /\ ~state.gameOver)
       => (/\ Len(scoreEventsOf(events')) = Len(hits')
           /\ \A k \in 1 .. Len(hits') :
                scoreEventsOf(events')[k].value =
                  (IF scoreEventsOf(events')[k].player = "human"
                   THEN state.playerScore ELSE state.aiScore)
                  + pointsUpTo(scoreEventsOf(events'), hits', state.bricks, k,
                               scoreEventsOf(events')[k].player)
           /\ state'.playerScore =
                state.playerScore + pointsUpTo(scoreEventsOf(events'), hits',
                                               state.bricks, Len(hits'), "human")
           /\ state'.aiScore =
                state.aiScore + pointsUpTo(scoreEventsOf(events'), hits',
                                           state.bricks, Len(hits'), "ai")
           /\ \A k \in 1 .. Len(lifeLostEventsOf(events', "human")) :
                lifeLostEventsOf(events', "human")[k].value = state.playerLives - k
           /\ state'.playerLives =
                state.playerLives - Len(lifeLostEventsOf(events', "human"))
           /\ \A k \in 1 .. Len(lifeLostEventsOf(events', "ai")) :
                lifeLostEventsOf(events', "ai")[k].value = state.aiLives - k
           /\ state'.aiLives = state.aiLives - Len(lifeLostEventsOf(events', "ai"))
           /\ \A k \in 1 .. Len(timeUpdateEventsOf(events')) :
                timeUpdateEventsOf(events')[k].value = state'.timeRemaining \div Milli)]_vars

(* a tick that scored for a side that had points before (the event names *)
(* more than any brick is worth), lost a life and sent a time update     *)
C23_Witness ==
  /\ \E k \in 1 .. Len(scoreEventsOf(events)) :
       scoreEventsOf(events)[k].value > SpecialPoints
  /\ lifeLostEventsOf(events, "human") # << >>
  /\ timeUpdateEventsOf(events) # << >>

(* the ball touches a side wall, the top wall *)
touchesSide(ball, gameWidth) ==
  ball.x - ball.radius <= 0 \/ ball.x + ball.radius >= gameWidth

touchesTop(ball) == ball.y - ball.radius <= 0

(* C24: after handleWallCollision, for any ball position before the call, *)
(* positions outside the arena included, the ball is at                   *)
(* radius <= x <= Width - radius and y >= radius; velocity.x is inverted  *)
(* exactly when a side wall was touched and velocity.y exactly when the   *)
(* top wall was touched; the bottom edge never reflects. A ball that      *)
(* touches no wall is left as it is.                                      *)
C24_WallKeepsBallInside ==
  \A i \in 1 .. Len(state.balls) :
     (~state.balls[i].nanPos /\ ~state.balls[i].nanVel)
       => (/\ handleWallCollision(state.balls[i], Width).x >= state.balls[i].radius
           /\ handleWallCollision(state.balls[i], Width).x
                <= Width - state.balls[i].radius
           /\ handleWallCollision(state.balls[i], Width).y >= state.balls[i].radius
           /\ handleWallCollision(state.balls[i], Width).vx =
                (IF touchesSide(state.balls[i], Width)
                 THEN -state.balls[i].vx ELSE state.balls[i].vx)
           /\ handleWallCollision(state.balls[i], Width).vy =
                (IF touchesTop(state.balls[i])
                 THEN -state.balls[i].vy ELSE state.balls[i].vy)
           /\ ~touchesSide(state.balls[i], Width)
                => handleWallCollision(state.balls[i], Width).x = state.balls[i].x
           /\ ~touchesTop(state.balls[i])
                => handleWallCollision(state.balls[i], Width).y = state.balls[i].y)

(* a ball that was beyond the left and the top wall, moving outward, has *)
(* been put into the corner with both velocities inverted                *)
C24_Witness ==
  /\ Len(state.balls) = 1
  /\ state.balls[1].x = BallRadius /\ state.balls[1].y = BallRadius
  /\ state.balls[1].vx = 12000 /\ state.balls[1].vy = 12000

(* C25: a paddle bounce always sends the ball back toward the opposite    *)
(* side: after bouncing on the player paddle the ball has velocity.y < 0, *)
(* and after bouncing on the AI paddle the ball has velocity.y > 0, away   *)
(* from the AI's edge.                                                     *)
C25_PaddleBounceTurnsBall ==
  \A i \in 1 .. Len(state.balls) :
     /\ (vyPositive(state.balls[i]) /\ ballHits(state.balls[i], state.playerPaddle))
          => vyNegative(paddleCheck([w |-> World, ball |-> state.balls[i]]).ball)
     /\ (vyNegative(state.balls[i]) /\ ballHits(state.balls[i], state.aiPaddle))
          => vyPositive(paddleCheck([w |-> World, ball |-> state.balls[i]]).ball)

(* C26: the brick collision response is defined for every overlapping    *)
(* ball: when the closest-point vector from the brick to the ball centre  *)
(* has zero length (centre on or inside the brick rectangle) a default    *)
(* normal is used, so the velocity of every ball stays a finite number,   *)
(* never the result of a division by zero.                                *)
C26_BrickResponseFinite ==
  \A i \in 1 .. Len(state.balls) : ~state.balls[i].nanVel

(* distance from coordinate c to the interval [lo, hi] *)
gap(c, lo, hi) == IF c < lo THEN lo - c ELSE IF c > hi THEN c - hi ELSE 0

(* square of the least Euclidean distance from the ball's centre to the *)
(* rectangle [x, x + width] x [y, y + height] of o                      *)
distanceSquared(ball, o) ==
  gap(ball.x, o.x, o.x + o.width) * gap(ball.x, o.x, o.x + o.width)
    + gap(ball.y, o.y, o.y + o.height) * gap(ball.y, o.y, o.y + o.height)

(* the rectangles of the match: both paddles and every brick *)
rectangles ==
  {state.playerPaddle, state.aiPaddle}
    \cup {[x |-> state.bricks[j].x, y |-> state.bricks[j].y,
           width |-> state.bricks[j].width, height |-> state.bricks[j].height] :
            j \in 1 .. Len(state.bricks)}

(* C27: checkCollision(ball, rect) is true exactly when the least          *)
(* Euclidean distance from the ball's centre to the axis-aligned rectangle *)
(* [x, x + width] x [y, y + height] is strictly less than the ball's       *)
(* radius: a distance equal to the radius is no collision, a centre inside *)
(* the rectangle is one.                                                   *)
C27_CollisionIsDistanceBelowRadius ==
  \A i \in 1 .. Len(state.balls) :
     ~state.balls[i].nanPos
       => \A o \in rectangles :
            ballHits(state.balls[i], o)
              <=> (distanceSquared(state.balls[i], o)
                     < state.balls[i].radius * state.balls[i].radius)

(* a ball found on the player paddle has bounced off it *)
C27_Witness ==
  /\ ballHits(state.balls[1], state.playerPaddle)
  /\ state.balls[1].vy < 0
  /\ state.balls[1].vy \notin TestV

(* C28: in every reachable state 0 <= timeRemaining <= gameDuration, and *)
(* within a match timeRemaining never increases from one tick to the next *)
C28_ClockBoundedAndFalling ==
  /\ [](state.timeRemaining >= 0 /\ state.timeRemaining <= GameDuration)
  /\ [][now' # now => state'.timeRemaining <= state.timeRemaining]_vars

(* the second match of a session is under way, its clock has run down *)
(* part of the way                                                    *)
C28_Witness ==
  /\ resets > 0
  /\ ~state.gameOver
  /\ state.timeRemaining > 0
  /\ state.timeRemaining < GameDuration - 2000

(* C29: every match terminates: if ticks keep being delivered with a     *)
(* positive elapsed time and the match is not left paused forever,        *)
(* state.gameOver eventually becomes true, at the latest once the         *)
(* accumulated unpaused tick time reaches gameDuration: every unpaused    *)
(* tick takes its elapsed time, which is positive, from timeRemaining,    *)
(* and no match goes on with timeRemaining at 0.                          *)
C29_MatchTerminates ==
  /\ <>state.gameOver
  /\ [](~state.gameOver => state.timeRemaining > 0)
  /\ [][(now' # now /\ ~state.paused /\ ~state.gameOver)
          => (/\ now' - lastTimestamp > 0
              /\ state'.timeRemaining =
                   Max(0, state.timeRemaining - (now' - lastTimestamp)))]_vars

(* the clock ended a match that had been paused for longer than a frame *)
C29_Witness ==
  /\ state.gameOver /\ state.timeRemaining = 0
  /\ state.playerLives > 0 /\ state.aiLives > 0
  /\ pauses > 0
  /\ now > Epoch + GameDuration + 2 * MinDelta

(* C30: on the tick whose decrement brings timeRemaining to zero, nothing *)
(* but timeRemaining and gameOver changes: the AI paddle, balls, bricks,   *)
(* power-ups, timed effects, scores and lives are exactly as before the    *)
(* tick, and game_over is the only event emitted.                          *)
C30_TimeUpTickFreezesMatch ==
  [][(/\ now' # now
      /\ ~state.paused /\ ~state.gameOver
      /\ state.timeRemaining - (now' - lastTimestamp) <= 0)
       => (/\ state' = [state EXCEPT !.timeRemaining = 0, !.gameOver = TRUE]
           /\ activePowerUps' = activePowerUps
           /\ lastUpdateTime' = lastUpdateTime
           /\ targetPosition' = targetPosition
           /\ hits' = << >>
           /\ Len(events') = 1
           /\ events'[1].type = "game_over")]_vars

(* the clock ran out on a match with a timed effect running, bricks *)
(* destroyed and the AI paddle away from the centre                 *)
C30_Witness ==
  /\ state.gameOver /\ state.timeRemaining = 0
  /\ Len(events) = 1 /\ events[1].type = "game_over"
  /\ state.playerLives > 0 /\ state.aiLives > 0
  /\ state.playerScore + state.aiScore > 0
  /\ state.aiPaddle.x # state.playerPaddle.x
  /\ activePowerUps # << >>

----------------------------------------------------------------------------
(* Properties of the engine, C31 to C40                                     *)

(* C31: each tick, every live power-up that is not caught has its position *)
(* advanced by velocity x deltaTime in its falling direction: a power-up   *)
(* that the tick neither catches nor drops below the bottom edge is in     *)
(* state.powerUps after the tick, that far further down.                   *)
C31_PowerUpFalls ==
  [][(/\ now' # now
      /\ ~state.paused /\ ~state.gameOver
      /\ state.timeRemaining - (now' - lastTimestamp) > 0
      /\ powerUpEventsOf(events') = << >>)
       => \A m \in 1 .. Len(state.powerUps) :
            (/\ state.powerUps[m].active
             /\ state.powerUps[m].y
                  + RoundDiv(PowerUpFallSpeed * (now' - lastTimestamp), Milli)
                  <= Height)
              => \E k \in 1 .. Len(state'.powerUps) :
                    /\ state'.powerUps[k].x = state.powerUps[m].x
                    /\ state'.powerUps[k].y =
                         state.powerUps[m].y
                           + RoundDiv(PowerUpFallSpeed * (now' - lastTimestamp), Milli)]_vars

(* the reaction delay of each tier, in ms *)
reactionDelayOf == [Easy |-> 300, Normal |-> 150, Hard |-> 50]

(* C32: the AI's target position is recomputed only when more than the    *)
(* tier's reactionDelay (Easy 0.30 s, Normal 0.15 s, Hard 0.05 s) has      *)
(* elapsed since the last recomputation; on every other tick the target   *)
(* is unchanged and the paddle keeps moving toward the stored target.     *)
C32_TargetHeldForReactionDelay ==
  [][now' # now
       => (/\ (targetPosition' # targetPosition \/ lastUpdateTime' # lastUpdateTime)
                => now' - lastUpdateTime > reactionDelayOf[aiDifficulty]
           /\ now' - lastUpdateTime <= reactionDelayOf[aiDifficulty]
                => (/\ targetPosition' = targetPosition
                    /\ lastUpdateTime' = lastUpdateTime
                    /\ state'.aiPaddle.x =
                         Max(0, Min(Width - state.aiPaddle.width,
                                    aiMovedX(state.aiPaddle, targetPosition,
                                             now' - now, aiDifficulty)))))]_vars

(* the last tick came within the reaction delay of a recomputation and *)
(* the paddle has left the centre for its target                       *)
C32_Witness ==
  /\ lastUpdateTime > Epoch
  /\ lastUpdateTime < now
  /\ targetPosition # 0
  /\ state.aiPaddle.x # (Width - state.aiPaddle.width) \div 2

(* the ball moved by velocity x speed x deltaTime x multiplier and then *)
(* put back inside the walls                                           *)
movedBy(ball, deltaTime, multiplier) ==
  handleWallCollision(
    [ball EXCEPT
       !.x = ball.x + Displacement(ball.vx, ball.speed, deltaTime, multiplier),
       !.y = ball.y + Displacement(ball.vy, ball.speed, deltaTime, multiplier)],
    Width)

(* C33: ball integration uses the overtime multiplier 2.0 exactly when    *)
(* state.gameOver is true at the moment the ball is integrated, and 1.0   *)
(* otherwise: in a tick, a ball handled before the human's last life is   *)
(* lost moves by velocity x speed x deltaTime, a ball handled after it by *)
(* twice that. (The loop runs from the last ball to the first; ticks with *)
(* no power-up in play; balls that are not themselves lost in the tick.)  *)
C33_OvertimeMultiplier ==
  [][(/\ now' # now
      /\ ~state.paused /\ ~state.gameOver
      /\ state.timeRemaining - (now' - lastTimestamp) > 0
      /\ state.powerUps = << >> /\ activePowerUps = << >>
      /\ Len(state'.balls) = Len(state.balls))
       => \A i \in 1 .. Len(state.balls) :
            (/\ state.balls[i].active
             /\ ~state.balls[i].nanVel /\ ~state.balls[i].nanPos
             /\ ~isBallLost(movedBy(state.balls[i], now' - lastTimestamp,
                                    IF livesAfter(state, i + 1, now' - lastTimestamp) <= 0
                                    THEN 2 ELSE 1),
                            Height))
              => (/\ state'.balls[i].x =
                       movedBy(state.balls[i], now' - lastTimestamp,
                               IF livesAfter(state, i + 1, now' - lastTimestamp) <= 0
                               THEN 2 ELSE 1).x
                  /\ state'.balls[i].y =
                       movedBy(state.balls[i], now' - lastTimestamp,
                               IF livesAfter(state, i + 1, now' - lastTimestamp) <= 0
                               THEN 2 ELSE 1).y
                  /\ ~state'.balls[i].nanPos)]_vars

(* the human's last life went with the second ball, which lies below the *)
(* bottom edge; the first ball was integrated after that, in play        *)
C33_Witness ==
  /\ state.gameOver /\ state.playerLives = 0
  /\ lifeLostEventsOf(events, "human") # << >>
  /\ Len(state.balls) = 2
  /\ isBallLost(state.balls[2], Height)
  /\ state.balls[1].active /\ ~state.balls[1].nanPos
  /\ ~isBallLost(state.balls[1], Height)

(* the balls of st in the vertical half of the side, for an arena of the *)
(* given height                                                          *)
ballsInHalf(st, player, height) ==
  Cardinality({i \in 1 .. Len(st.balls) :
                 /\ ~st.balls[i].nanPos
                 /\ IF player = "human" THEN st.balls[i].y > height \div 2
                    ELSE st.balls[i].y < height \div 2})

(* C34: catching ExtraBall adds exactly one new active ball when the      *)
(* catching side controls fewer than 3 balls in its vertical half of the  *)
(* arena, the half measured against the match's configured arena height   *)
(* (the player paddle stands PlayerPaddleOffset above it), and adds none  *)
(* otherwise; it never changes or removes an existing ball and registers  *)
(* no timed effect.                                                       *)
C34_ExtraBallWithinLimit ==
  [][(/\ Len(caught') = Len(caught) + 1
      /\ caught'[Len(caught')].type = "extra_ball")
       => (/\ Len(state'.balls) =
                Len(state.balls)
                  + (IF ballsInHalf(state, caught'[Len(caught')].player,
                                    state.playerPaddle.y + PlayerPaddleOffset)
                          < MaxExtraBalls
                     THEN 1 ELSE 0)
           /\ \A i \in 1 .. Len(state.balls) : state'.balls[i] = state.balls[i]
           /\ \A i \in Len(state.balls) + 1 .. Len(state'.balls) : state'.balls[i].active
           /\ activePowerUps' = activePowerUps)]_vars

(* the points of the destroyed bricks among bricks[1 .. k], 10 for a *)
(* Normal and 30 for a Special brick                                 *)
RECURSIVE destroyedPoints(_, _)
destroyedPoints(bricks, k) ==
  IF k = 0 THEN 0
  ELSE destroyedPoints(bricks, k - 1)
         + (IF bricks[k].active THEN 0
            ELSE IF bricks[k].type = "special" THEN 30 ELSE 10)

(* C35: score conservation: in every reachable state of a match          *)
(* playerScore + aiScore equals the sum of the points of all inactive    *)
(* bricks; each brick destruction adds the brick's points (10 Normal, 30 *)
(* Special) to exactly one of the two scores and leaves the other        *)
(* unchanged: a tick raises neither score by more than the points of the *)
(* bricks it destroyed, and credits each of them to one side.            *)
C35_ScoreConservation ==
  /\ [](state.playerScore + state.aiScore
          = destroyedPoints(state.bricks, Len(state.bricks)))
  /\ [][now' # now
          => (/\ Len(scoreEventsOf(events')) = Len(hits')
              /\ state'.playerScore >= state.playerScore
              /\ state'.aiScore >= state.aiScore
              /\ (state'.playerScore - state.playerScore)
                   + (state'.aiScore - state.aiScore)
                   = destroyedPoints(state'.bricks, Len(state'.bricks))
                       - destroyedPoints(state.bricks, Len(state.bricks)))]_vars

(* both sides have points, from a Normal and a Special brick, in the *)
(* second match of a session                                         *)
C35_Witness ==
  /\ resets > 0
  /\ state.playerScore > 0 /\ state.aiScore > 0
  /\ \E j \in 1 .. Len(state.bricks) :
       ~state.bricks[j].active /\ state.bricks[j].type = "special"
  /\ \E j \in 1 .. Len(state.bricks) :
       ~state.bricks[j].active /\ state.bricks[j].type = "normal"


C37_GameOverIsLastEvent ==
  [][/\ \A k \in 1 .. Len(events') :
          events'[k].type = "game_over" => k = Len(events')
     /\ state.gameOver => events' = << >>]_vars


(* C38: at most one game-loop frame is pending at any time, for every    *)
(* sequence of start(), stop() and reset() calls, calls made by the      *)
(* event handler while a tick is running included.                       *)
C38_OneFramePending == frames <= 1

(* C39: after stop() has returned, no game-loop frame runs until start() *)
(* or reset() is called, also when stop() is called by the event handler *)
(* during a tick.                                                        *)
C39_NoFrameAfterStop == [][stopped => now' = now]_vars


(* the rollout of predictBallLanding for a ball, as a Normal or Hard AI runs it *)
rolloutOf(ball, difficulty) ==
  rollout(simulatedBall(ball), MaxSteps + 1, Width, state.aiPaddle.y, state.bricks,
          difficulty)

(* C40: predictBallLanding terminates after at most 1000 rollout steps,  *)
(* and for a ball at or below the AI paddle's y-level (position.y >=     *)
(* paddleY) it performs no rollout step; the returned target is then,    *)
(* for Normal and Hard, the ball's current x plus the random error,      *)
(* clamped into [0, arenaWidth], and for Easy the ball's current x       *)
(* itself, with no error added and no clamp.                             *)
C40_PredictionAtPaddleLevel ==
  \A i \in 1 .. Len(state.balls), d \in Difficulties :
     (~state.balls[i].nanPos /\ ~state.balls[i].nanVel)
       => /\ d # "Easy" => rolloutOf(state.balls[i], d).steps <= MaxSteps
          /\ state.balls[i].y >= state.aiPaddle.y
               => /\ d # "Easy" => rolloutOf(state.balls[i], d).steps = 0
                  /\ \A r \in {0, 500, 999} :
                       predictBallLanding(state.balls[i], Width, state.aiPaddle.y,
                                          state.bricks, d, r)
                         = IF d = "Easy" THEN state.balls[i].x
                           ELSE Max(0, Min(Width, state.balls[i].x
                                                    + errorAmount(Width, d, r)))

(* a ball below the AI paddle and right of the arena, for which a Normal *)
(* or Hard prediction was made: the target is the right edge             *)
C40_Witness ==
  /\ state.balls[1] \in TestBalls
  /\ state.balls[1].y >= state.aiPaddle.y
  /\ state.balls[1].x > Width
  /\ targetPosition = Width

(* C40 as stated for every tier: at or below the paddle level the target *)
(* is the ball's x plus the random error, clamped into [0, arenaWidth]   *)
C40_EveryTierAddsError ==
  \A i \in 1 .. Len(state.balls), d \in Difficulties :
     (~state.balls[i].nanPos /\ ~state.balls[i].nanVel
        /\ state.balls[i].y >= state.aiPaddle.y)
       => \A r \in {0, 500, 999} :
            predictBallLanding(state.balls[i], Width, state.aiPaddle.y,
                               state.bricks, d, r)
              = Max(0, Min(Width, state.balls[i].x + errorAmount(Width, d, r)))

====
